---- MODULE Spec2Model ----
(***************************************************************************)
(* Model of the gqlx schema relationship graph engine: the breadth-first   *)
(* path search of the paths command (cmd/paths.go), its post-filters, the  *)
(* usage-set computation and the filters of the types command              *)
(* (cmd/types.go), the fields and args commands (cmd/fields.go,            *)
(* cmd/args.go), and calls of ExecuteWithArgs one after another in one     *)
(* process (cmd/root.go).                                                  *)
(*                                                                         *)
(* Go strings are modelled as sequences of one-character strings, so that  *)
(* rendering, substring search, splitting and byte-wise comparison are     *)
(* computed as the code computes them.                                     *)
(***************************************************************************)
EXTENDS Integers, Sequences, FiniteSets, TLC

VARIABLES
    schema,     \* *ast.Schema returned by loadCliForSchema
    command,    \* the cobra command that runs: "paths", "types", "fields", "args"
    args,       \* positional arguments of the command
    opts,       \* the options of the command: pathsOptions, typesOptions,
                \* the flag variables of fields, argsOptions
    pc,         \* position of the running command
    queue,      \* findPaths: BFS queue of searchState
    results,    \* findPaths: []PathInfo accumulated, then sorted and returned
    paths,      \* runPaths: local variable paths
    stdout,     \* records rendered to cmd.OutOrStdout()
    stderr,     \* notices written to cmd.ErrOrStderr()
    err,        \* error returned by the command (<<>> is nil)
    typeName,   \* getTypesUsedBy: argument typeName
    usedTypes,  \* getTypesUsedBy: returned set (keys of map[string]bool)
    types,      \* runTypes: local variable types ([]TypeInfo)
    fieldInfos, \* fields: local variable fields ([]FieldInfo)
    argInfos,   \* runArgs: local variable argInfos ([]ArgInfo)
    argv,       \* ExecuteWithArgs: the command line of the call that runs
    previous,   \* the command line of the call before it (<<>>: none)
    schemaFilePath, \* package variable bound to --schema
    outputFormat    \* package variable set by PersistentPreRunE from --format

vars == <<schema, command, args, opts, pc, queue, results, paths, stdout,
          stderr, err, typeName, usedTypes, types, fieldInfos, argInfos,
          argv, previous, schemaFilePath, outputFormat>>

\* the locals of the commands other than paths
listVars == <<command, types, fieldInfos, argInfos>>

\* what ExecuteWithArgs sets before the command runs
callVars == <<argv, previous, schemaFilePath, outputFormat>>

-----------------------------------------------------------------------------
(* Bounds of the model                                                     *)

\* largest --max-depth value drawn (the smallest is -1)
MaxDepthBound == 3

\* cap on the number of steps of a dequeued search state (never reached by
\* the code's search: see StepsWithinCap)
MaxSteps == 3

-----------------------------------------------------------------------------
(* Strings                                                                 *)

\* byte value of the characters that occur in the model
Ord(c) ==
    CASE c = " " -> 32 [] c = "(" -> 40 [] c = ")" -> 41 [] c = "-" -> 45
      [] c = "." -> 46 [] c = ">" -> 62
      [] c = "A" -> 65 [] c = "B" -> 66 [] c = "N" -> 78 [] c = "Q" -> 81
      [] c = "S" -> 83 [] c = "T" -> 84 [] c = "Z" -> 90
      [] c = "a" -> 97 [] c = "b" -> 98 [] c = "d" -> 100 [] c = "e" -> 101
      [] c = "i" -> 105 [] c = "n" -> 110 [] c = "q" -> 113 [] c = "r" -> 114
      [] c = "s" -> 115 [] c = "t" -> 116 [] c = "u" -> 117 [] c = "v" -> 118
      [] c = "y" -> 121

\* Go's < on strings: byte-wise lexicographic order
RECURSIVE StrLess(_, _)
StrLess(a, b) ==
    IF b = <<>> THEN FALSE
    ELSE IF a = <<>> THEN TRUE
    ELSE IF Ord(Head(a)) # Ord(Head(b)) THEN Ord(Head(a)) < Ord(Head(b))
    ELSE StrLess(Tail(a), Tail(b))

\* strings.Index: position of the first occurrence of sub in s at or after
\* position i, 0 when there is none
RECURSIVE IndexFrom(_, _, _)
IndexFrom(s, sub, i) ==
    IF i + Len(sub) - 1 > Len(s) THEN 0
    ELSE IF SubSeq(s, i, i + Len(sub) - 1) = sub THEN i
    ELSE IndexFrom(s, sub, i + 1)

\* strings.Contains
Contains(s, sub) == IndexFrom(s, sub, 1) # 0

\* strings.Split with a non-empty separator
RECURSIVE Split(_, _)
Split(s, sep) ==
    LET i == IndexFrom(s, sep, 1) IN
    IF i = 0 THEN <<s>>
    ELSE <<SubSeq(s, 1, i - 1)>> \o Split(SubSeq(s, i + Len(sep), Len(s)), sep)

\* strings.Join
RECURSIVE Join(_, _)
Join(parts, sep) ==
    IF parts = <<>> THEN <<>>
    ELSE IF Len(parts) = 1 THEN parts[1]
    ELSE parts[1] \o sep \o Join(Tail(parts), sep)

Arrow == <<" ", "-", ">", " ">>
Dot == <<".">>
Ellipsis == <<"(", ".", ".", ".", ")">>

-----------------------------------------------------------------------------
(* Schema values: ast.Type, ast.FieldDefinition, ast.Definition            *)

NamedType(n) == [NamedType |-> n, Elem |-> <<>>, NonNull |-> FALSE]
NonNullNamedType(n) == [NamedType |-> n, Elem |-> <<>>, NonNull |-> TRUE]
ListType(t) == [NamedType |-> <<>>, Elem |-> <<t>>, NonNull |-> FALSE]
NonNullListType(t) == [NamedType |-> <<>>, Elem |-> <<t>>, NonNull |-> TRUE]

\* ast.ArgumentDefinition and ast.FieldDefinition without a description and
\* without directives
Arg(n, t) == [Name |-> n, Type |-> t, Description |-> <<>>, Directives |-> <<>>]
Field(n, t, as) ==
    [Name |-> n, Type |-> t, Arguments |-> as, Description |-> <<>>,
     Directives |-> <<>>]

\* the same definitions with a description, with the @deprecated directive
Described(def) == [def EXCEPT !.Description = <<"d">>]
Deprecated(def) == [def EXCEPT !.Directives = <<"deprecated">>]

Query == <<"Q", "u", "e", "r", "y">>
A == <<"A">>
BA == <<"B", "A">>
T == <<"T">>
S == <<"S">>
N == <<"N">>
Z == <<"Z">>
Y == <<"Y">>
X == <<"X">>

idField == Field(<<"i", "d">>, NonNullNamedType(S), <<>>)

\* The optional fields of the schemas drawn: a schema keeps any subset of
\* them, in this declaration order, before the id field of each type.
OptionalFields == <<
    [owner |-> Query, field |-> Field(<<"v">>, NamedType(A), <<>>)],
    [owner |-> Query, field |-> Field(<<"b">>, NonNullListType(NonNullNamedType(BA)),
                                    <<Arg(<<"n">>, ListType(NonNullNamedType(N))),
                                      Deprecated(Arg(<<"s">>, NamedType(S)))>>)],
    [owner |-> Query, field |-> Deprecated(Field(<<"t">>, NamedType(T), <<>>))],
    [owner |-> A,     field |-> Field(<<"t">>, NamedType(T), <<>>)],
    [owner |-> A,     field |-> Field(<<"q">>, NonNullNamedType(Query), <<>>)],
    [owner |-> A,     field |-> Field(<<"a">>, ListType(NamedType(A)),
                                    <<Described(Arg(<<"s">>, NonNullNamedType(S)))>>)],
    [owner |-> BA,    field |-> Field(<<"t">>, NonNullListType(NonNullNamedType(T)), <<>>)],
    [owner |-> BA,    field |-> Described(Field(<<"a">>, NamedType(A), <<>>))]
>>

RECURSIVE FieldsOf(_, _, _)
FieldsOf(owner, chosen, i) ==
    IF i > Len(OptionalFields) THEN <<>>
    ELSE (IF i \in chosen /\ OptionalFields[i].owner = owner
          THEN <<OptionalFields[i].field>> ELSE <<>>)
         \o FieldsOf(owner, chosen, i + 1)

ObjectDef(name, chosen) ==
    [Kind |-> "OBJECT", Name |-> name,
     Fields |-> FieldsOf(name, chosen, 1) \o <<idField>>,
     Description |-> <<>>, Interfaces |-> <<>>]

\* the interface A declares no field but id: the object types, which all
\* declare id, may implement it
ImplementableA(chosen) ==
    \A i \in chosen : OptionalFields[i].owner # A

\* the schema that declares the chosen optional fields; BA implements A
\* where A declares nothing that BA lacks, and T carries a description
SchemaOf(chosen) ==
    [Types |->
        (Query :> ObjectDef(Query, chosen)) @@
        (A :> [ObjectDef(A, chosen) EXCEPT !.Kind = "INTERFACE"]) @@
        (BA :> [ObjectDef(BA, chosen) EXCEPT
                    !.Interfaces = IF ImplementableA(chosen) THEN <<A>> ELSE <<>>]) @@
        (T :> [ObjectDef(T, chosen) EXCEPT !.Description = <<"d">>]) @@
        (S :> [Kind |-> "SCALAR", Name |-> S, Fields |-> <<>>,
               Description |-> <<>>, Interfaces |-> <<>>]) @@
        (N :> [Kind |-> "INPUT_OBJECT", Name |-> N,
               Fields |-> <<Field(<<"n">>, NamedType(N), <<>>),
                            Field(<<"s">>, ListType(NonNullNamedType(S)), <<>>)>>,
               Description |-> <<>>, Interfaces |-> <<>>])]

Schemas == {SchemaOf(chosen) : chosen \in SUBSET (1 .. Len(OptionalFields))}

\* schema.Types[name] != nil
TypeExists(sch, name) == name \in DOMAIN sch.Types

-----------------------------------------------------------------------------
(* cmd/utils.go                                                            *)

RECURSIVE getBaseTypeName(_)
getBaseTypeName(t) ==
    IF t.Elem # <<>> THEN getBaseTypeName(t.Elem[1]) ELSE t.NamedType

\* filterSlice: the elements that satisfy the predicate, in order; the
\* predicate is given as a Boolean-valued function on the elements
filterSlice(items, predicate) ==
    LET satisfies(item) == predicate[item] IN SelectSeq(items, satisfies)

\* validateTypeExists: nil (<<>>) or the error
validateTypeExists(sch, name, context) ==
    IF ~TypeExists(sch, name)
    THEN <<[context |-> context, name |-> name, msg |-> "does not exist in schema"]>>
    ELSE <<>>

-----------------------------------------------------------------------------
(* cmd/types.go: getTypesUsedBy                                            *)

\* Mutant of collectArguments: the argument types are not collected.
collectArgumentsSkipped(used, arguments) == used

\* `for _, arg := range field.Arguments { usedTypes[...] = true }`
RECURSIVE collectArguments(_, _)
collectArguments(used, arguments) ==
    IF arguments = <<>> THEN used
    ELSE collectArguments(used \cup {getBaseTypeName(Head(arguments).Type)},
                          Tail(arguments))

\* "Collect types from fields", with the types of the fields' arguments
RECURSIVE collectFields(_, _)
collectFields(used, fields) ==
    IF fields = <<>> THEN used
    ELSE collectFields(
            collectArguments(used \cup {getBaseTypeName(Head(fields).Type)},
                             Head(fields).Arguments),
            Tail(fields))

\* "Collect types from input fields (for input types)"
RECURSIVE collectInputFields(_, _)
collectInputFields(used, fields) ==
    IF fields = <<>> THEN used
    ELSE collectInputFields(used \cup {getBaseTypeName(Head(fields).Type)},
                            Tail(fields))

\* Mutant of getTypesUsedBy: the map is seeded with the name before the
\* definition is looked up, so an absent type yields a non-empty set.
getTypesUsedBySeeded(sch, name) ==
    IF ~TypeExists(sch, name) THEN {name}
    ELSE collectInputFields(collectFields({}, sch.Types[name].Fields),
                            sch.Types[name].Fields)

\* `if typeDef == nil { return usedTypes }`, then the two collecting loops
getTypesUsedBy(sch, name) ==
    IF ~TypeExists(sch, name) THEN {}
    ELSE collectInputFields(collectFields({}, sch.Types[name].Fields),
                            sch.Types[name].Fields)

-----------------------------------------------------------------------------
(* cmd/paths.go: rendering                                                 *)

formatPathStep(step) ==
    IF step.hasArgs
    THEN step.typeName \o Dot \o step.fieldName \o Ellipsis
    ELSE step.typeName \o Dot \o step.fieldName

formatPath(steps, targetType) ==
    IF Len(steps) = 0 THEN targetType
    ELSE Join([i \in 1 .. Len(steps) |-> formatPathStep(steps[i])], Arrow)
         \o Arrow \o targetType

-----------------------------------------------------------------------------
(* cmd/paths.go: findPaths                                                 *)

\* the loop that finds the return type of the last step's field
RECURSIVE returnTypeOfField(_, _, _)
returnTypeOfField(fields, fieldName, default) ==
    IF fields = <<>> THEN default
    ELSE IF Head(fields).Name = fieldName THEN getBaseTypeName(Head(fields).Type)
    ELSE returnTypeOfField(Tail(fields), fieldName, default)

\* "Determine current type we're exploring"
currentTypeNameOf(sch, fromType, steps) ==
    IF Len(steps) > 0
    THEN LET lastStep == steps[Len(steps)] IN
         IF TypeExists(sch, lastStep.typeName)
         THEN returnTypeOfField(sch.Types[lastStep.typeName].Fields,
                                lastStep.fieldName, fromType)
         ELSE fromType
    ELSE fromType

\* Mutants of shouldContinue: the depth test made inclusive, the visited test
\* dropped, both tests dropped, the depth test made one too strict.
shouldContinueInclusive(visited, fieldReturnType, newLen, maxDepth) ==
    fieldReturnType \notin visited /\ newLen <= maxDepth

shouldContinueRevisit(visited, fieldReturnType, newLen, maxDepth) ==
    newLen < maxDepth

shouldContinueAlways(visited, fieldReturnType, newLen, maxDepth) == TRUE

shouldContinueStrict(visited, fieldReturnType, newLen, maxDepth) ==
    fieldReturnType \notin visited /\ newLen < maxDepth - 1

\* "Continue searching if we haven't visited this type and haven't exceeded depth"
shouldContinue(visited, fieldReturnType, newLen, maxDepth) ==
    fieldReturnType \notin visited /\ newLen < maxDepth

\* "Only continue if it's an object type with fields"
isExpandable(sch, fieldReturnType) ==
    /\ TypeExists(sch, fieldReturnType)
    /\ sch.Types[fieldReturnType].Kind \in {"OBJECT", "INTERFACE"}
    /\ Len(sch.Types[fieldReturnType].Fields) > 0

\* "Check if this field returns our target type"
returnsTarget(fieldReturnType, targetType) == fieldReturnType = targetType

\* newStep := pathStep{typeName: currentTypeName, fieldName: field.Name, ...}
newStepOf(currentTypeName, field) ==
    [typeName |-> currentTypeName,
     fieldName |-> field.Name,
     hasArgs |-> Len(field.Arguments) > 0]

\* the paths that `for _, field := range currentType.Fields` appends to
\* results, in the order of the fields
foundPaths(fields, current, currentTypeName, targetType) ==
    LET hit(field) == returnsTarget(getBaseTypeName(field.Type), targetType)
        hits == SelectSeq(fields, hit)
    IN  [i \in 1 .. Len(hits) |->
            [Path |-> formatPath(Append(current.steps,
                                        newStepOf(currentTypeName, hits[i])),
                                 targetType)]]

\* Mutant of enqueuedStates: the search does not go on through a field that
\* declares arguments.
enqueuedStatesArgless(sch, fields, current, currentTypeName, maxDepth) ==
    LET goOn(field) ==
            /\ shouldContinue(current.visited, getBaseTypeName(field.Type),
                              Len(current.steps) + 1, maxDepth)
            /\ isExpandable(sch, getBaseTypeName(field.Type))
            /\ Len(field.Arguments) = 0
        kept == SelectSeq(fields, goOn)
    IN  [i \in 1 .. Len(kept) |->
            [steps |-> Append(current.steps, newStepOf(currentTypeName, kept[i])),
             visited |-> current.visited \cup {getBaseTypeName(kept[i].Type)}]]

\* the states that the same loop appends to queue, in the order of the fields
enqueuedStates(sch, fields, current, currentTypeName, maxDepth) ==
    LET goOn(field) ==
            /\ shouldContinue(current.visited, getBaseTypeName(field.Type),
                              Len(current.steps) + 1, maxDepth)
            /\ isExpandable(sch, getBaseTypeName(field.Type))
        kept == SelectSeq(fields, goOn)
    IN  [i \in 1 .. Len(kept) |->
            [steps |-> Append(current.steps, newStepOf(currentTypeName, kept[i])),
             visited |-> current.visited \cup {getBaseTypeName(kept[i].Type)}]]

\* the loop over the fields of the current type: results and queue after it
expandFields(sch, fields, current, currentTypeName, targetType, maxDepth, acc) ==
    [results |-> acc.results \o
                 foundPaths(fields, current, currentTypeName, targetType),
     queue |-> acc.queue \o
               enqueuedStates(sch, fields, current, currentTypeName, maxDepth)]

\* Mutant of tooDeep: the comparison is the wrong way round.
tooDeepReversed(steps, maxDepth) == Len(steps) < maxDepth

\* `if len(current.steps) > maxDepth { continue }`
tooDeep(steps, maxDepth) == Len(steps) > maxDepth

\* one iteration of `for len(queue) > 0`: the pair of results and queue after it
searchStep(sch, fromType, targetType, maxDepth, res, q) ==
    LET current == Head(q)
        rest == Tail(q)
        currentTypeName == currentTypeNameOf(sch, fromType, current.steps)
    IN  IF tooDeep(current.steps, maxDepth) THEN [results |-> res, queue |-> rest]
        ELSE IF ~TypeExists(sch, currentTypeName) THEN [results |-> res, queue |-> rest]
        ELSE expandFields(sch, sch.Types[currentTypeName].Fields, current,
                          currentTypeName, targetType, maxDepth,
                          [results |-> res, queue |-> rest])

\* the position of list[i] once the list is sorted by Path (entries with
\* equal paths keep their order)
rankByPath(list, i) ==
    1 + Cardinality({j \in 1 .. Len(list) :
                        \/ StrLess(list[j].Path, list[i].Path)
                        \/ (list[j].Path = list[i].Path /\ j < i)})

sortedByPath(list) ==
    [k \in 1 .. Len(list) |->
        list[CHOOSE i \in 1 .. Len(list) : rankByPath(list, i) = k]]

\* Mutant of sortResults: the results are left in discovery order.
sortResultsOmitted(list) == list

\* `sort.Slice(results, func(i, j) { return results[i].Path < results[j].Path })`
sortResults(list) == sortedByPath(list)

\* `for len(queue) > 0` run until the queue is empty: the results then
RECURSIVE runQueue(_, _, _, _, _)
runQueue(sch, from, target, maxDepth, st) ==
    IF st.queue = <<>> THEN st.results
    ELSE runQueue(sch, from, target, maxDepth,
                  searchStep(sch, from, target, maxDepth, st.results, st.queue))

\* findPaths as a function of its arguments: the sorted results
findPaths(sch, from, target, maxDepth) ==
    IF ~TypeExists(sch, from) THEN <<>>
    ELSE sortResults(runQueue(sch, from, target, maxDepth,
                              [results |-> <<>>,
                               queue |-> <<[steps |-> <<>>, visited |-> {from}]>>]))

-----------------------------------------------------------------------------
(* cmd/paths.go: runPaths                                                  *)

\* `--through`: strings.Contains(p.Path, opts.throughType+".")
throughMatches(p, throughType) == Contains(p.Path, throughType \o Dot)

\* len(strings.Split(p.Path, " -> "))
depthOf(p) == Len(Split(p.Path, Arrow))

\* the loop that computes minDepth, over a non-empty list
RECURSIVE minDepthFrom(_, _)
minDepthFrom(list, minDepth) ==
    IF list = <<>> THEN minDepth
    ELSE minDepthFrom(Tail(list),
                      IF depthOf(Head(list)) < minDepth THEN depthOf(Head(list))
                      ELSE minDepth)

\* Mutant of minDepthOf: the depth of the first path is taken as the minimum.
minDepthOfFirst(list) == depthOf(list[1])

minDepthOf(list) == minDepthFrom(list, depthOf(list[1]))

shortestOf(list) ==
    LET minDepth == minDepthOf(list) IN
    filterSlice(list, [p \in {list[i] : i \in 1 .. Len(list)} |->
                          depthOf(p) = minDepth])

\* fromType := opts.fromType; if fromType == "" { fromType = "Query" }
fromTypeOf(o) == IF o.fromType = <<>> THEN Query ELSE o.fromType

\* Mutant of validatePaths: the start type is validated before the target.
validatePathsFromFirst(sch, targetType, o) ==
    IF validateTypeExists(sch, fromTypeOf(o), "type") # <<>>
    THEN validateTypeExists(sch, fromTypeOf(o), "type")
    ELSE IF validateTypeExists(sch, targetType, "type") # <<>>
    THEN validateTypeExists(sch, targetType, "type")
    ELSE IF o.throughType # <<>>
    THEN validateTypeExists(sch, o.throughType, "type")
    ELSE <<>>

\* the three validateTypeExists calls of runPaths, in order: the first error
validatePaths(sch, targetType, o) ==
    IF validateTypeExists(sch, targetType, "type") # <<>>
    THEN validateTypeExists(sch, targetType, "type")
    ELSE IF validateTypeExists(sch, fromTypeOf(o), "type") # <<>>
    THEN validateTypeExists(sch, fromTypeOf(o), "type")
    ELSE IF o.throughType # <<>>
    THEN validateTypeExists(sch, o.throughType, "type")
    ELSE <<>>

NoPathsNotice == "No paths found that match the filters."

targetType == args[1]
fromType == fromTypeOf(opts)

\* pathsOptions as NewPathsCmd constructs it
defaultMaxDepth == 5
defaultPathsOptions ==
    [maxDepth |-> defaultMaxDepth, fromType |-> <<>>, shortestOnly |-> FALSE,
     throughType |-> <<>>]

\* one flag of the command line and its value
Flag(f, v) == [flag |-> f, value |-> v]

\* the flags of a command line that yields the options o
flagsOf(o, defaults) ==
    {Flag(f, o[f]) : f \in {g \in DOMAIN o : o[g] # defaults[g]}}

DefaultSchemaFile == <<"s", "c", "h", "e", "m", "a", ".", "g", "r", "a", "p", "h", "q", "l">>
FormatText == <<"t", "e", "x", "t">>

\* the first call of ExecuteWithArgs in a process, up to the RunE of the
\* subcommand: --schema and --format are not given, and stdout is not a
\* terminal
InvokedOnce(defaults) ==
    /\ argv = [command |-> command, args |-> args, flags |-> flagsOf(opts, defaults)]
    /\ previous = <<>>
    /\ schemaFilePath = DefaultSchemaFile
    /\ outputFormat = FormatText

\* the inputs drawn
MaxDepths == (0 - 1) .. MaxDepthBound
Targets == {T, A, Z}
FromTypes == {<<>>, A, Y}
ThroughTypes == {<<>>, A, X}

Init ==
    /\ schema \in Schemas
    /\ args \in {<<t>> : t \in Targets}
    /\ opts \in [maxDepth : MaxDepths, fromType : FromTypes,
                 shortestOnly : BOOLEAN, throughType : ThroughTypes]
    /\ pc = "runPaths"
    /\ queue = <<>>
    /\ results = <<>>
    /\ paths = <<>>
    /\ stdout = <<>>
    /\ stderr = <<>>
    /\ err = <<>>
    /\ typeName = <<>>
    /\ usedTypes = {}
    /\ command = "paths"
    /\ types = <<>>
    /\ fieldInfos = <<>>
    /\ argInfos = <<>>
    /\ InvokedOnce(defaultPathsOptions)

\* runPaths up to the call of findPaths, and findPaths up to its loop
RunPathsValidate ==
    /\ pc = "runPaths"
    /\ LET e == validatePaths(schema, targetType, opts) IN
       IF e # <<>>
       THEN /\ err' = e
            /\ pc' = "failed"
            /\ UNCHANGED queue
       ELSE /\ err' = <<>>
            /\ IF ~TypeExists(schema, fromType)
               THEN queue' = <<>>
               ELSE queue' = <<[steps |-> <<>>, visited |-> {fromType}]>>
            /\ pc' = "search"
    /\ UNCHANGED <<callVars, schema, args, opts, results, paths, stdout, stderr,
                   typeName, usedTypes, listVars>>

\* one iteration of the loop `for len(queue) > 0`
FindPathsLoop ==
    /\ pc = "search"
    /\ queue # <<>>
    /\ Len(Head(queue).steps) <= MaxSteps
    /\ LET after == searchStep(schema, fromType, targetType, opts.maxDepth,
                               results, queue)
       IN /\ results' = after.results
          /\ queue' = after.queue
    /\ UNCHANGED <<callVars, schema, args, opts, pc, paths, stdout, stderr, err,
                   typeName, usedTypes, listVars>>

\* the loop ends: the results are sorted and returned to runPaths
FindPathsReturn ==
    /\ pc = "search"
    /\ queue = <<>>
    /\ results' = sortResults(results)
    /\ paths' = results'
    /\ pc' = "through"
    /\ UNCHANGED <<callVars, schema, args, opts, queue, stdout, stderr, err,
                   typeName, usedTypes, listVars>>

\* "Filter to paths through specific type if requested"
ThroughFilter ==
    /\ pc = "through"
    /\ paths' = IF opts.throughType # <<>>
                THEN filterSlice(paths, [p \in {paths[i] : i \in 1 .. Len(paths)} |->
                                            throughMatches(p, opts.throughType)])
                ELSE paths
    /\ pc' = "shortest"
    /\ UNCHANGED <<callVars, schema, args, opts, queue, results, stdout, stderr, err,
                   typeName, usedTypes, listVars>>

\* "Filter to shortest paths if requested"
ShortestFilter ==
    /\ pc = "shortest"
    /\ paths' = IF opts.shortestOnly /\ Len(paths) > 0 THEN shortestOf(paths)
                ELSE paths
    /\ pc' = "render"
    /\ UNCHANGED <<callVars, schema, args, opts, queue, results, stdout, stderr, err,
                   typeName, usedTypes, listVars>>

\* the notice on an empty result, and the rendering of the list
RenderPaths ==
    /\ pc = "render"
    /\ stderr' = IF Len(paths) = 0 THEN Append(stderr, NoPathsNotice) ELSE stderr
    /\ stdout' = Append(stdout, paths)
    /\ pc' = "done"
    /\ UNCHANGED <<callVars, schema, args, opts, queue, results, paths, err,
                   typeName, usedTypes, listVars>>

Next ==
    \/ RunPathsValidate
    \/ FindPathsLoop
    \/ FindPathsReturn
    \/ ThroughFilter
    \/ ShortestFilter
    \/ RenderPaths

Spec == Init /\ [][Next]_vars

\* getTypesUsedBy is called on a schema and a type name, absent names included
InitUsedBy ==
    /\ schema \in Schemas
    /\ typeName \in {Query, A, BA, T, S, N, Z}
    /\ pc = "getTypesUsedBy"
    /\ usedTypes = {}
    /\ args = <<>>
    /\ opts = defaultPathsOptions
    /\ queue = <<>>
    /\ results = <<>>
    /\ paths = <<>>
    /\ stdout = <<>>
    /\ stderr = <<>>
    /\ err = <<>>
    /\ command = "types"
    /\ types = <<>>
    /\ fieldInfos = <<>>
    /\ argInfos = <<>>
    /\ InvokedOnce(defaultPathsOptions)

GetTypesUsedBy ==
    /\ pc = "getTypesUsedBy"
    /\ usedTypes' = getTypesUsedBy(schema, typeName)
    /\ pc' = "usedBy"
    /\ UNCHANGED <<callVars, schema, args, opts, queue, results, paths, stdout, stderr,
                   err, typeName, listVars>>

NextUsedBy == GetTypesUsedBy

SpecUsedBy == InitUsedBy /\ [][NextUsedBy]_vars

\* the searches for T from the default root, without post-filters
InitSearch ==
    /\ Init
    /\ args = <<T>>
    /\ opts.fromType = <<>>
    /\ opts.throughType = <<>>
    /\ ~opts.shortestOnly

\* the command is single-threaded and synchronous: it runs to its end, no
\* step of it is postponed forever
FairSpec == InitSearch /\ [][Next]_vars /\ WF_vars(Next)

-----------------------------------------------------------------------------
(* Patterns: filepath.Match, regexp.Compile, Regexp.MatchString,           *)
(* strings.ToLower                                                         *)

\* filepath.Match with the error dropped (`matched, _ :=`): literals, `?`,
\* `*` and character classes without ranges; an unterminated or empty class
\* is ErrBadPattern, for which matched is false
RECURSIVE filepathMatch(_, _)
filepathMatch(pattern, name) ==
    IF pattern = <<>> THEN name = <<>>
    ELSE IF Head(pattern) = "*"
    THEN \E k \in 0 .. Len(name) :
            filepathMatch(Tail(pattern), SubSeq(name, k + 1, Len(name)))
    ELSE IF Head(pattern) = "["
    THEN LET close == IndexFrom(pattern, <<"]">>, 2) IN
         /\ close # 0
         /\ name # <<>>
         /\ Head(name) \in {pattern[i] : i \in 2 .. (close - 1)}
         /\ filepathMatch(SubSeq(pattern, close + 1, Len(pattern)), Tail(name))
    ELSE /\ name # <<>>
         /\ (Head(pattern) = "?" \/ Head(pattern) = Head(name))
         /\ filepathMatch(Tail(pattern), Tail(name))

occurrences(s, c) == Cardinality({i \in 1 .. Len(s) : s[i] = c})

\* regexp.Compile: nil (<<>>) or the error; the patterns of the model are
\* literals and `.` between an optional `^` and an optional `$`, and a
\* pattern whose parentheses do not pair does not compile
regexpCompile(pattern) ==
    IF occurrences(pattern, "(") # occurrences(pattern, ")")
    THEN <<[msg |-> "invalid regex pattern for --name-regex", pattern |-> pattern]>>
    ELSE <<>>

\* Regexp.MatchString of a compiled pattern: an unanchored search
MatchString(pattern, name) ==
    LET atStart == pattern # <<>> /\ Head(pattern) = "^"
        afterStart == IF atStart THEN Tail(pattern) ELSE pattern
        atEnd == afterStart # <<>> /\ afterStart[Len(afterStart)] = "$"
        body == IF atEnd THEN SubSeq(afterStart, 1, Len(afterStart) - 1)
                ELSE afterStart
    IN  \E k \in 1 .. (Len(name) - Len(body) + 1) :
            /\ atStart => k = 1
            /\ atEnd => k + Len(body) - 1 = Len(name)
            /\ \A i \in 1 .. Len(body) :
                  body[i] = "." \/ body[i] = name[k + i - 1]

\* strings.ToLower on the letters of the model
toLowerByte(c) ==
    CASE c = "I" -> "i" [] c = "N" -> "n" [] c = "P" -> "p" [] c = "U" -> "u"
      [] c = "T" -> "t" [] c = "J" -> "j" [] c = "S" -> "s" [] c = "O" -> "o"
      [] OTHER -> c

ToLower(s) == [i \in 1 .. Len(s) |-> toLowerByte(s[i])]

-----------------------------------------------------------------------------
(* cmd/types.go: the filters of the types command                          *)

validKinds ==
    (<<"s", "c", "a", "l", "a", "r">> :> "SCALAR") @@
    (<<"t", "y", "p", "e">> :> "OBJECT") @@
    (<<"o", "b", "j", "e", "c", "t">> :> "OBJECT") @@
    (<<"i", "n", "t", "e", "r", "f", "a", "c", "e">> :> "INTERFACE") @@
    (<<"u", "n", "i", "o", "n">> :> "UNION") @@
    (<<"e", "n", "u", "m">> :> "ENUM") @@
    (<<"i", "n", "p", "u", "t">> :> "INPUT_OBJECT")

\* Mutant of matchesKindFilter: with an individual kind flag set, the values
\* of --kind are not consulted.
matchesKindFilterFlagsOnly(t, o) ==
    LET hasIndividualFilter ==
            o.scalar \/ o.typeFilter \/ o.interfaceFlag \/ o.union \/ o.enum
            \/ o.input
        individual ==
            \/ t.Kind = "SCALAR" /\ o.scalar
            \/ t.Kind = "OBJECT" /\ o.typeFilter
            \/ t.Kind = "INTERFACE" /\ o.interfaceFlag
            \/ t.Kind = "UNION" /\ o.union
            \/ t.Kind = "ENUM" /\ o.enum
            \/ t.Kind = "INPUT_OBJECT" /\ o.input
        byKind ==
            \E i \in 1 .. Len(o.kind) :
                /\ ToLower(o.kind[i]) \in DOMAIN validKinds
                /\ t.Kind = validKinds[ToLower(o.kind[i])]
    IN  IF hasIndividualFilter THEN individual
        ELSE IF Len(o.kind) > 0 THEN byKind
        ELSE TRUE

matchesKindFilter(t, o) ==
    LET hasIndividualFilter ==
            o.scalar \/ o.typeFilter \/ o.interfaceFlag \/ o.union \/ o.enum
            \/ o.input
        individual ==
            \/ t.Kind = "SCALAR" /\ o.scalar
            \/ t.Kind = "OBJECT" /\ o.typeFilter
            \/ t.Kind = "INTERFACE" /\ o.interfaceFlag
            \/ t.Kind = "UNION" /\ o.union
            \/ t.Kind = "ENUM" /\ o.enum
            \/ t.Kind = "INPUT_OBJECT" /\ o.input
        byKind ==
            \E i \in 1 .. Len(o.kind) :
                /\ ToLower(o.kind[i]) \in DOMAIN validKinds
                /\ t.Kind = validKinds[ToLower(o.kind[i])]
    IN  IF hasIndividualFilter /\ individual THEN TRUE
        ELSE IF Len(o.kind) > 0 /\ byKind THEN TRUE
        ELSE ~hasIndividualFilter /\ Len(o.kind) = 0

\* Mutant of validateImplementsFilter: the kind of the type is not looked at.
validateImplementsFilterAnyKind(sch, implementsFilter) ==
    IF implementsFilter = <<>> THEN <<>>
    ELSE IF ~TypeExists(sch, implementsFilter)
    THEN <<[context |-> "interface", name |-> implementsFilter,
            msg |-> "does not exist in schema"]>>
    ELSE <<>>

\* validateImplementsFilter: nil (<<>>) or the error
validateImplementsFilter(sch, implementsFilter) ==
    IF implementsFilter = <<>> THEN <<>>
    ELSE IF ~TypeExists(sch, implementsFilter)
    THEN <<[context |-> "interface", name |-> implementsFilter,
            msg |-> "does not exist in schema"]>>
    ELSE IF sch.Types[implementsFilter].Kind # "INTERFACE"
    THEN <<[context |-> "interface", name |-> implementsFilter,
            msg |-> "is not an interface"]>>
    ELSE <<>>

matchesImplementsFilter(t, implementsFilter) ==
    IF implementsFilter = <<>> THEN TRUE
    ELSE \E i \in 1 .. Len(t.Interfaces) : t.Interfaces[i] = implementsFilter

\* Mutant of matchesHasFieldFilter: one of the listed fields is enough.
matchesHasFieldFilterAny(t, hasFieldFilter) ==
    \/ Len(hasFieldFilter) = 0
    \/ \E i \in 1 .. Len(hasFieldFilter) :
          \E j \in 1 .. Len(t.Fields) : t.Fields[j].Name = hasFieldFilter[i]

matchesHasFieldFilter(t, hasFieldFilter) ==
    \A i \in 1 .. Len(hasFieldFilter) :
        \E j \in 1 .. Len(t.Fields) : t.Fields[j].Name = hasFieldFilter[i]

\* collectUsedBySets: the sets of the names before the first name that does
\* not exist, and that name's error; without an error, one set per name
collectUsedBySets(sch, filterTypes) ==
    LET bad == {i \in 1 .. Len(filterTypes) :
                   validateTypeExists(sch, filterTypes[i], "type") # <<>>}
    IN  IF bad # {}
        THEN [sets |-> <<>>,
              err |-> validateTypeExists(
                          sch, filterTypes[CHOOSE i \in bad : \A j \in bad : i <= j],
                          "type")]
        ELSE [sets |-> [i \in 1 .. Len(filterTypes) |->
                           getTypesUsedBy(sch, filterTypes[i])],
              err |-> <<>>]

\* Mutant of isInAllSets: one set that holds the name is enough.
isInAllSetsAny(name, sets) ==
    sets = <<>> \/ \E i \in 1 .. Len(sets) : name \in sets[i]

isInAllSets(name, sets) == \A i \in 1 .. Len(sets) : name \in sets[i]

\* Mutant of isInAnySets: every set has to hold the name.
isInAnySetsAll(name, sets) ==
    sets # <<>> /\ \A i \in 1 .. Len(sets) : name \in sets[i]

isInAnySets(name, sets) == \E i \in 1 .. Len(sets) : name \in sets[i]

\* Mutant of passesUsedBy: the --used-by sets are not consulted.
passesUsedBySkipped(name, usedBySets) == TRUE

\* "--used-by (AND): must be used by ALL specified types"
passesUsedBy(name, usedBySets) ==
    ~(Len(usedBySets) > 0 /\ ~isInAllSets(name, usedBySets))

\* "--used-by-any (OR): must be used by ANY of the specified types"
passesUsedByAny(name, usedByAnySets) ==
    ~(Len(usedByAnySets) > 0 /\ ~isInAnySets(name, usedByAnySets))

\* Mutant of passesNotUsedBy: a type is dropped only if every set holds it.
passesNotUsedByWhenAll(name, notUsedBySets) ==
    ~(Len(notUsedBySets) > 0 /\ isInAllSets(name, notUsedBySets))

\* "--not-used-by (AND): must NOT be used by ANY of the specified types"
passesNotUsedBy(name, notUsedBySets) ==
    ~(Len(notUsedBySets) > 0 /\ isInAnySets(name, notUsedBySets))

\* Mutant of passesNotUsedByAll: a type is dropped as soon as one set holds it.
passesNotUsedByAllWhenAny(name, notUsedByAllSets) ==
    ~(Len(notUsedByAllSets) > 0 /\ isInAnySets(name, notUsedByAllSets))

\* "--not-used-by-all (OR): exclude only if used by ALL specified types"
passesNotUsedByAll(name, notUsedByAllSets) ==
    ~(Len(notUsedByAllSets) > 0 /\ isInAllSets(name, notUsedByAllSets))

\* the body of `for _, graphqlType := range schema.Types` up to the append:
\* TRUE when no `continue` is taken
typePasses(sch, t, o) ==
    /\ matchesImplementsFilter(t, o.implements)
    /\ matchesHasFieldFilter(t, o.hasField)
    /\ matchesKindFilter(t, o)
    /\ passesUsedBy(t.Name, collectUsedBySets(sch, o.usedBy).sets)
    /\ passesUsedByAny(t.Name, collectUsedBySets(sch, o.usedByAny).sets)
    /\ passesNotUsedBy(t.Name, collectUsedBySets(sch, o.notUsedBy).sets)
    /\ passesNotUsedByAll(t.Name, collectUsedBySets(sch, o.notUsedByAll).sets)
    /\ ~(o.hasDescription /\ t.Description = <<>>)
    /\ (o.name # <<>> => filepathMatch(o.name, t.Name))
    /\ (o.nameRegex # <<>> => MatchString(o.nameRegex, t.Name))

\* TypeInfo{Name, Kind, Description}
typeInfoOf(t) == [Name |-> t.Name, Kind |-> t.Kind, Description |-> t.Description]

\* the orders in which `range` may yield the keys of a map: Go leaves the
\* iteration order of a map unspecified, every order is possible
RECURSIVE rangeOrders(_)
rangeOrders(keys) ==
    IF keys = {} THEN {<<>>}
    ELSE UNION {{<<k>> \o rest : rest \in rangeOrders(keys \ {k})} : k \in keys}

\* the names of the types for which the loop of runTypes reaches its append
passingTypes(sch, o) ==
    {name \in DOMAIN sch.Types : typePasses(sch, sch.Types[name], o)}

\* the list that the loop of runTypes builds when `range` yields the passing
\* types in the given order
typesInOrder(sch, order) ==
    [i \in 1 .. Len(order) |-> typeInfoOf(sch.Types[order[i]])]

\* Mutant of validateTypes: the names of --not-used-by-all are not validated.
validateTypesEarly(sch, o) ==
    IF o.nameRegex # <<>> /\ regexpCompile(o.nameRegex) # <<>>
    THEN regexpCompile(o.nameRegex)
    ELSE IF validateImplementsFilter(sch, o.implements) # <<>>
    THEN validateImplementsFilter(sch, o.implements)
    ELSE IF collectUsedBySets(sch, o.usedBy).err # <<>>
    THEN collectUsedBySets(sch, o.usedBy).err
    ELSE IF collectUsedBySets(sch, o.usedByAny).err # <<>>
    THEN collectUsedBySets(sch, o.usedByAny).err
    ELSE collectUsedBySets(sch, o.notUsedBy).err

\* the checks of runTypes before its loop, in order: the first error
validateTypes(sch, o) ==
    IF o.nameRegex # <<>> /\ regexpCompile(o.nameRegex) # <<>>
    THEN regexpCompile(o.nameRegex)
    ELSE IF validateImplementsFilter(sch, o.implements) # <<>>
    THEN validateImplementsFilter(sch, o.implements)
    ELSE IF collectUsedBySets(sch, o.usedBy).err # <<>>
    THEN collectUsedBySets(sch, o.usedBy).err
    ELSE IF collectUsedBySets(sch, o.usedByAny).err # <<>>
    THEN collectUsedBySets(sch, o.usedByAny).err
    ELSE IF collectUsedBySets(sch, o.notUsedBy).err # <<>>
    THEN collectUsedBySets(sch, o.notUsedBy).err
    ELSE collectUsedBySets(sch, o.notUsedByAll).err

NoTypesNotice == "No types found that match the filters."

\* Mutant of noticeOnEmpty: nothing is written for an empty list.
noticeOnEmptyOmitted(errOut, list, notice) == errOut

\* `if len(types) == 0 { fmt.Fprintln(cmd.ErrOrStderr(), "No ... found ...") }`,
\* the same in types, fields and args: stderr after it
noticeOnEmpty(errOut, list, notice) ==
    IF Len(list) = 0 THEN Append(errOut, notice) ELSE errOut

\* typesOptions as NewTypesCmd constructs it
defaultTypesOptions ==
    [implements |-> <<>>, hasField |-> <<>>, kind |-> <<>>, usedBy |-> <<>>,
     usedByAny |-> <<>>, notUsedBy |-> <<>>, notUsedByAll |-> <<>>,
     name |-> <<>>, nameRegex |-> <<>>, hasDescription |-> FALSE,
     scalar |-> FALSE, typeFilter |-> FALSE, interfaceFlag |-> FALSE,
     union |-> FALSE, enum |-> FALSE, input |-> FALSE]

\* the values drawn for the flags that take type names
UsageLists == {<<Query>>, <<A>>, <<BA>>, <<Query, A>>, <<A, BA>>, <<N, Z>>}

TypesFlags ==
    {Flag(f, v) : f \in {"usedBy", "usedByAny", "notUsedBy", "notUsedByAll"},
                  v \in UsageLists}
    \cup {Flag("implements", v) : v \in {A, BA, Z}}
    \cup {Flag("hasField", v) : v \in {<<<<"t">>>>, <<<<"t">>, <<"a">>>>}}
    \cup {Flag("kind", v) : v \in {<<<<"t", "y", "p", "e">>>>,
                                   <<<<"I", "N", "P", "U", "T">>,
                                     <<"s", "c", "a", "l", "a", "r">>>>,
                                   <<<<"n", "o", "d", "e">>>>}}
    \cup {Flag("name", v) : v \in {<<"*", "A">>, <<"?">>, <<"[", "A">>}}
    \cup {Flag("nameRegex", v) : v \in {<<"^", "A">>, <<"A", "$">>, <<"(", "A">>}}
    \cup {Flag(f, TRUE) : f \in {"hasDescription", "scalar", "typeFilter",
                                 "interfaceFlag", "union", "enum", "input"}}

\* the flags that are combined with a second flag
TypesFlagsCombined ==
    {Flag("usedBy", <<Query>>), Flag("usedByAny", <<Query, A>>),
     Flag("notUsedBy", <<A>>), Flag("notUsedByAll", <<Query, A>>),
     Flag("typeFilter", TRUE), Flag("hasDescription", TRUE),
     Flag("implements", A), Flag("implements", Z)}

withFlag(o, f) == [o EXCEPT ![f.flag] = f.value]

\* the command lines drawn: no flag, one flag, two flags
TypesOptions ==
    {defaultTypesOptions}
    \cup {withFlag(defaultTypesOptions, f) : f \in TypesFlags}
    \cup {withFlag(withFlag(defaultTypesOptions, f), g) :
             f \in TypesFlagsCombined, g \in TypesFlags}

\* the schemas on which types, fields and args are run
CommandSchemas ==
    {SchemaOf(c \cup d) : c \in SUBSET {2, 5, 8}, d \in {{}, {1, 3, 4, 6, 7}}}

\* the state of the program when a command other than paths starts
InitCommand ==
    /\ schema \in CommandSchemas
    /\ queue = <<>>
    /\ results = <<>>
    /\ paths = <<>>
    /\ stdout = <<>>
    /\ stderr = <<>>
    /\ err = <<>>
    /\ typeName = <<>>
    /\ usedTypes = {}
    /\ types = <<>>
    /\ fieldInfos = <<>>
    /\ argInfos = <<>>

InitTypes ==
    /\ InitCommand
    /\ command = "types"
    /\ args = <<>>
    /\ opts \in TypesOptions
    /\ pc = "runTypes"
    /\ InvokedOnce(defaultTypesOptions)

\* runTypes up to its loop: the regex, the --implements check and the four
\* calls of collectUsedBySets
RunTypesValidate ==
    /\ pc = "runTypes"
    /\ err' = validateTypes(schema, opts)
    /\ pc' = IF err' # <<>> THEN "failed" ELSE "typesLoop"
    /\ UNCHANGED <<callVars, schema, command, args, opts, queue, results, paths, stdout,
                   stderr, typeName, usedTypes, types, fieldInfos, argInfos>>

\* `for _, graphqlType := range schema.Types`, in the order of this run: a
\* type that takes a `continue` leaves no trace, so the run is determined by
\* the order in which the map yields the passing types
RunTypesLoop ==
    /\ pc = "typesLoop"
    /\ \E order \in rangeOrders(passingTypes(schema, opts)) :
          types' = typesInOrder(schema, order)
    /\ pc' = "typesRender"
    /\ UNCHANGED <<callVars, schema, command, args, opts, queue, results, paths, stdout,
                   stderr, err, typeName, usedTypes, fieldInfos, argInfos>>

\* the notice on an empty result, and the rendering of the list
RenderTypes ==
    /\ pc = "typesRender"
    /\ stderr' = noticeOnEmpty(stderr, types, NoTypesNotice)
    /\ stdout' = Append(stdout, types)
    /\ pc' = "done"
    /\ UNCHANGED <<callVars, schema, command, args, opts, queue, results, paths, err,
                   typeName, usedTypes, types, fieldInfos, argInfos>>

NextTypes ==
    \/ RunTypesValidate
    \/ RunTypesLoop
    \/ RenderTypes

SpecTypes == InitTypes /\ [][NextTypes]_vars

-----------------------------------------------------------------------------
(* cmd/fields.go: the fields command                                       *)

RECURSIVE typeToString(_)
typeToString(typeDef) ==
    LET requiredStr == IF typeDef.NonNull THEN <<"!">> ELSE <<>> IN
    IF typeDef.Elem # <<>>
    THEN <<"[">> \o typeToString(typeDef.Elem[1]) \o <<"]">> \o requiredStr
    ELSE typeDef.NamedType \o requiredStr

\* fieldToInfo; no field of the schemas has a default value
fieldToInfo(fieldDef) ==
    [Name |-> fieldDef.Name,
     Arguments |-> [i \in 1 .. Len(fieldDef.Arguments) |->
                      [Name |-> fieldDef.Arguments[i].Name,
                       Type |-> typeToString(fieldDef.Arguments[i].Type)]],
     Type |-> typeToString(fieldDef.Type),
     DefaultValue |-> <<>>,
     Description |-> fieldDef.Description,
     TypeName |-> <<>>]

\* field.Directives.ForName("deprecated") != nil
isFieldDeprecated(field) ==
    \E i \in 1 .. Len(field.Directives) : field.Directives[i] = "deprecated"

\* Mutant of matchesHasArgFilter: one of the listed arguments is enough.
matchesHasArgFilterAny(field, hasArgFilter) ==
    \/ Len(hasArgFilter) = 0
    \/ \E i \in 1 .. Len(hasArgFilter) :
          \E j \in 1 .. Len(field.Arguments) : field.Arguments[j].Name = hasArgFilter[i]

matchesHasArgFilter(field, hasArgFilter) ==
    \A i \in 1 .. Len(hasArgFilter) :
        \E j \in 1 .. Len(field.Arguments) : field.Arguments[j].Name = hasArgFilter[i]

\* Mutant of fieldPassesInAllTypes: --nullable is not looked at.
fieldPassesInAllTypesNullableSkipped(field, o) ==
    /\ ~(o.deprecatedFilter /\ ~isFieldDeprecated(field))
    /\ matchesHasArgFilter(field, o.hasArgFilter)
    /\ ~(o.returnsFilter # <<>> /\ getBaseTypeName(field.Type) # o.returnsFilter)
    /\ ~(o.requiredFilter /\ ~field.Type.NonNull)
    /\ ~(o.hasDescriptionFilter /\ field.Description = <<>>)
    /\ (o.nameFilter # <<>> => filepathMatch(o.nameFilter, field.Name))
    /\ (o.nameRegexFilter # <<>> => MatchString(o.nameRegexFilter, field.Name))

\* the body of the inner loop of "List all fields from all types" up to the
\* append: TRUE when no `continue` is taken
fieldPassesInAllTypes(field, o) ==
    /\ ~(o.deprecatedFilter /\ ~isFieldDeprecated(field))
    /\ matchesHasArgFilter(field, o.hasArgFilter)
    /\ ~(o.returnsFilter # <<>> /\ getBaseTypeName(field.Type) # o.returnsFilter)
    /\ ~(o.requiredFilter /\ ~field.Type.NonNull)
    /\ ~(o.nullableFilter /\ field.Type.NonNull)
    /\ ~(o.hasDescriptionFilter /\ field.Description = <<>>)
    /\ (o.nameFilter # <<>> => filepathMatch(o.nameFilter, field.Name))
    /\ (o.nameRegexFilter # <<>> => MatchString(o.nameRegexFilter, field.Name))

\* the body of the loop of "List fields from specific type" up to the
\* append: TRUE when no `continue` is taken
fieldPasses(field, o) ==
    /\ ~(o.deprecatedFilter /\ ~isFieldDeprecated(field))
    /\ matchesHasArgFilter(field, o.hasArgFilter)
    /\ ~(o.returnsFilter # <<>> /\ getBaseTypeName(field.Type) # o.returnsFilter)
    /\ ~(o.requiredFilter /\ ~field.Type.NonNull)
    /\ ~(o.nullableFilter /\ field.Type.NonNull)
    /\ ~(o.hasDescriptionFilter /\ field.Description = <<>>)
    /\ (o.nameFilter # <<>> => filepathMatch(o.nameFilter, field.Name))
    /\ (o.nameRegexFilter # <<>> => MatchString(o.nameRegexFilter, field.Name))

\* the passing fields of one type, in declaration order
fieldsPassing(t, o) ==
    LET keep(field) == fieldPasses(field, o) IN SelectSeq(t.Fields, keep)

\* Mutant of fieldsOfOneType: the passing fields, last declared first.
fieldsOfOneTypeReversed(t, o) ==
    [i \in 1 .. Len(fieldsPassing(t, o)) |->
        fieldToInfo(fieldsPassing(t, o)[Len(fieldsPassing(t, o)) + 1 - i])]

\* "List fields from specific type": the passing fields in declaration order
fieldsOfOneType(t, o) ==
    [i \in 1 .. Len(fieldsPassing(t, o)) |-> fieldToInfo(fieldsPassing(t, o)[i])]

\* the fields of one type that "List all fields from all types" appends, in
\* declaration order
fieldsPassingInAllTypes(t, o) ==
    LET keep(field) == fieldPassesInAllTypes(field, o) IN SelectSeq(t.Fields, keep)

\* the records appended for one type of "List all fields from all types"
fieldsWithTypeName(t, o) ==
    [i \in 1 .. Len(fieldsPassingInAllTypes(t, o)) |->
        [fieldToInfo(fieldsPassingInAllTypes(t, o)[i]) EXCEPT !.TypeName = t.Name]]

\* the concatenation of a sequence of lists
RECURSIVE flatten(_)
flatten(lists) ==
    IF lists = <<>> THEN <<>> ELSE Head(lists) \o flatten(Tail(lists))

\* "List all fields from all types", `range schema.Types` yielding the types
\* in the given order
fieldsInOrder(sch, o, order) ==
    flatten([i \in 1 .. Len(order) |-> fieldsWithTypeName(sch.Types[order[i]], o)])

\* the types that contribute a record to the list of all fields
typesWithPassingFields(sch, o) ==
    {name \in DOMAIN sch.Types : fieldsPassingInAllTypes(sch.Types[name], o) # <<>>}

\* Mutant of exclusiveFlags: the two flags are accepted together.
exclusiveFlagsAccepted(required, nullable) == <<>>

\* `if required && nullable { return fmt.Errorf(...) }`: nil (<<>>) or the error
exclusiveFlags(required, nullable) ==
    IF required /\ nullable
    THEN <<[msg |-> "--required and --nullable cannot be used together"]>>
    ELSE <<>>

\* the checks of the fields command before its loops, in order: the first error
validateFields(sch, arguments, o) ==
    IF exclusiveFlags(o.requiredFilter, o.nullableFilter) # <<>>
    THEN exclusiveFlags(o.requiredFilter, o.nullableFilter)
    ELSE IF o.nameRegexFilter # <<>> /\ regexpCompile(o.nameRegexFilter) # <<>>
    THEN regexpCompile(o.nameRegexFilter)
    ELSE IF Len(arguments) = 0 THEN <<>>
    ELSE validateTypeExists(sch, arguments[1], "type")

NoFieldsNotice == "No fields found that match the filters."

\* the flag variables of cmd/fields.go at their defaults
defaultFieldsFlags ==
    [deprecatedFilter |-> FALSE, hasArgFilter |-> <<>>, returnsFilter |-> <<>>,
     requiredFilter |-> FALSE, nullableFilter |-> FALSE, nameFilter |-> <<>>,
     nameRegexFilter |-> <<>>, hasDescriptionFilter |-> FALSE]

FieldsFlags ==
    {Flag(f, TRUE) : f \in {"deprecatedFilter", "requiredFilter", "nullableFilter",
                            "hasDescriptionFilter"}}
    \cup {Flag("hasArgFilter", v) : v \in {<<<<"s">>>>, <<<<"n">>, <<"s">>>>}}
    \cup {Flag("returnsFilter", v) : v \in {T, A, Z}}
    \cup {Flag("nameFilter", v) : v \in {<<"?">>, <<"*", "d">>, <<"[", "t">>}}
    \cup {Flag("nameRegexFilter", v) : v \in {<<"^", "t">>, <<".", "$">>, <<"(", "t">>}}

\* the command lines drawn: no flag, one flag, two flags
FieldsOptions ==
    {defaultFieldsFlags}
    \cup {withFlag(defaultFieldsFlags, f) : f \in FieldsFlags}
    \cup {withFlag(withFlag(defaultFieldsFlags, f), g) : f \in FieldsFlags, g \in FieldsFlags}

FieldsArgs == {<<>>, <<Query>>, <<A>>, <<N>>, <<Z>>}

InitFields ==
    /\ InitCommand
    /\ command = "fields"
    /\ args \in FieldsArgs
    /\ opts \in FieldsOptions
    /\ pc = "runFields"
    /\ InvokedOnce(defaultFieldsFlags)

\* RunE of fieldsCmd up to its loops
RunFieldsValidate ==
    /\ pc = "runFields"
    /\ err' = validateFields(schema, args, opts)
    /\ pc' = IF err' # <<>> THEN "failed" ELSE "fieldsLoop"
    /\ UNCHANGED <<callVars, schema, command, args, opts, queue, results, paths, stdout,
                   stderr, typeName, usedTypes, types, fieldInfos, argInfos>>

\* the loops of the two branches; without an argument `range schema.Types`
\* yields the types in the order of this run, and a type none of whose
\* fields pass leaves no trace
RunFieldsLoop ==
    /\ pc = "fieldsLoop"
    /\ IF Len(args) = 0
       THEN \E order \in rangeOrders(typesWithPassingFields(schema, opts)) :
               fieldInfos' = fieldsInOrder(schema, opts, order)
       ELSE fieldInfos' = fieldsOfOneType(schema.Types[args[1]], opts)
    /\ pc' = "fieldsRender"
    /\ UNCHANGED <<callVars, schema, command, args, opts, queue, results, paths, stdout,
                   stderr, err, typeName, usedTypes, types, argInfos>>

\* the notice on an empty result, and the rendering of the list
RenderFields ==
    /\ pc = "fieldsRender"
    /\ stderr' = noticeOnEmpty(stderr, fieldInfos, NoFieldsNotice)
    /\ stdout' = Append(stdout, fieldInfos)
    /\ pc' = "done"
    /\ UNCHANGED <<callVars, schema, command, args, opts, queue, results, paths, err,
                   typeName, usedTypes, types, fieldInfos, argInfos>>

NextFields ==
    \/ RunFieldsValidate
    \/ RunFieldsLoop
    \/ RenderFields

SpecFields == InitFields /\ [][NextFields]_vars

-----------------------------------------------------------------------------
(* cmd/args.go: the args command                                           *)

\* arg.Directives.ForName("deprecated") != nil
isArgDeprecated(arg) ==
    \E i \in 1 .. Len(arg.Directives) : arg.Directives[i] = "deprecated"

matchesArgFilters(arg, o) ==
    /\ ~(o.typeFilter # <<>> /\ getBaseTypeName(arg.Type) # o.typeFilter)
    /\ ~(o.required /\ ~arg.Type.NonNull)
    /\ ~(o.nullable /\ arg.Type.NonNull)
    /\ ~(o.hasDescription /\ arg.Description = <<>>)

\* the body of `for _, arg := range field.Arguments` up to the append, the
\* same in both branches: TRUE when no `continue` is taken
argPasses(arg, o) ==
    /\ ~(o.deprecated /\ ~isArgDeprecated(arg))
    /\ matchesArgFilters(arg, o)
    /\ (o.name # <<>> => filepathMatch(o.name, arg.Name))
    /\ (o.nameRegex # <<>> => MatchString(o.nameRegex, arg.Name))

\* argToInfo; no argument of the schemas has a default value
argToInfo(arg) ==
    [Name |-> arg.Name,
     Type |-> typeToString(arg.Type),
     DefaultValue |-> <<>>,
     Description |-> arg.Description,
     TypeName |-> <<>>,
     FieldName |-> <<>>]

\* the passing arguments of one field, in declaration order
argsPassing(field, o) ==
    LET keep(arg) == argPasses(arg, o) IN SelectSeq(field.Arguments, keep)

\* the loop over the arguments of the field named on the command line
argsOfOneField(field, o) ==
    [i \in 1 .. Len(argsPassing(field, o)) |-> argToInfo(argsPassing(field, o)[i])]

\* the records appended for one field of "List all arguments from all fields"
argsWithFieldName(t, field, o) ==
    [i \in 1 .. Len(argsPassing(field, o)) |->
        [argToInfo(argsPassing(field, o)[i]) EXCEPT
            !.TypeName = t.Name, !.FieldName = field.Name]]

\* the records appended for one type: its fields in declaration order
argsOfType(t, o) ==
    flatten([j \in 1 .. Len(t.Fields) |-> argsWithFieldName(t, t.Fields[j], o)])

\* "List all arguments from all fields", `range schema.Types` yielding the
\* types in the given order
argsInOrder(sch, o, order) ==
    flatten([i \in 1 .. Len(order) |-> argsOfType(sch.Types[order[i]], o)])

\* the types that contribute a record to the list of all arguments
typesWithPassingArgs(sch, o) ==
    {name \in DOMAIN sch.Types : argsOfType(sch.Types[name], o) # <<>>}

\* the loop that looks the field up: <<field>>, or <<>> when there is none
lookupField(t, fieldName) ==
    LET named(f) == f.Name = fieldName
        found == SelectSeq(t.Fields, named)
    IN  IF found = <<>> THEN <<>> ELSE <<Head(found)>>

\* "Parse Type.field format" and the two lookups: the first error
validateFieldPath(sch, fieldPath) ==
    LET parts == Split(fieldPath, Dot) IN
    IF Len(parts) # 2
    THEN <<[msg |-> "field must be specified as Type.field"]>>
    ELSE IF validateTypeExists(sch, parts[1], "type") # <<>>
    THEN validateTypeExists(sch, parts[1], "type")
    ELSE IF lookupField(sch.Types[parts[1]], parts[2]) = <<>>
    THEN <<[context |-> "field", name |-> parts[2], msg |-> "does not exist on type"]>>
    ELSE <<>>

\* the checks of runArgs before its loops, in order: the first error
validateArgs(sch, arguments, o) ==
    IF exclusiveFlags(o.required, o.nullable) # <<>>
    THEN exclusiveFlags(o.required, o.nullable)
    ELSE IF o.nameRegex # <<>> /\ regexpCompile(o.nameRegex) # <<>>
    THEN regexpCompile(o.nameRegex)
    ELSE IF Len(arguments) = 0 THEN <<>>
    ELSE validateFieldPath(sch, arguments[1])

NoArgsNotice == "No arguments found that match the filters."

\* argsOptions as NewArgsCmd constructs it
defaultArgsOptions ==
    [deprecated |-> FALSE, typeFilter |-> <<>>, required |-> FALSE,
     nullable |-> FALSE, name |-> <<>>, nameRegex |-> <<>>,
     hasDescription |-> FALSE]

ArgsFlags ==
    {Flag(f, TRUE) : f \in {"deprecated", "required", "nullable", "hasDescription"}}
    \cup {Flag("typeFilter", v) : v \in {S, N, Z}}
    \cup {Flag("name", v) : v \in {<<"s">>, <<"*">>, <<"[", "s">>}}
    \cup {Flag("nameRegex", v) : v \in {<<"^", "n">>, <<".">>, <<"(", "s">>}}

\* the command lines drawn: no flag, one flag, two flags
ArgsOptions ==
    {defaultArgsOptions}
    \cup {withFlag(defaultArgsOptions, f) : f \in ArgsFlags}
    \cup {withFlag(withFlag(defaultArgsOptions, f), g) : f \in ArgsFlags, g \in ArgsFlags}

\* no argument, Query.b, A.a, Z.b, Query.z, Query, Query.b.n
ArgsArgs ==
    {<<>>, <<Query \o Dot \o <<"b">>>>, <<A \o Dot \o <<"a">>>>,
     <<Z \o Dot \o <<"b">>>>, <<Query \o Dot \o <<"z">>>>, <<Query>>,
     <<Query \o Dot \o <<"b">> \o Dot \o <<"n">>>>}

InitArgs ==
    /\ InitCommand
    /\ command = "args"
    /\ args \in ArgsArgs
    /\ opts \in ArgsOptions
    /\ pc = "runArgs"
    /\ InvokedOnce(defaultArgsOptions)

\* runArgs up to its loops
RunArgsValidate ==
    /\ pc = "runArgs"
    /\ err' = validateArgs(schema, args, opts)
    /\ pc' = IF err' # <<>> THEN "failed" ELSE "argsLoop"
    /\ UNCHANGED <<callVars, schema, command, args, opts, queue, results, paths, stdout,
                   stderr, typeName, usedTypes, types, fieldInfos, argInfos>>

\* the loops of the two branches; without an argument `range schema.Types`
\* yields the types in the order of this run, and a type none of whose
\* arguments pass leaves no trace
RunArgsLoop ==
    /\ pc = "argsLoop"
    /\ IF Len(args) = 0
       THEN \E order \in rangeOrders(typesWithPassingArgs(schema, opts)) :
               argInfos' = argsInOrder(schema, opts, order)
       ELSE LET parts == Split(args[1], Dot) IN
            argInfos' = argsOfOneField(
                            lookupField(schema.Types[parts[1]], parts[2])[1], opts)
    /\ pc' = "argsRender"
    /\ UNCHANGED <<callVars, schema, command, args, opts, queue, results, paths, stdout,
                   stderr, err, typeName, usedTypes, types, fieldInfos>>

\* the notice on an empty result, and the rendering of the list
RenderArgs ==
    /\ pc = "argsRender"
    /\ stderr' = noticeOnEmpty(stderr, argInfos, NoArgsNotice)
    /\ stdout' = Append(stdout, argInfos)
    /\ pc' = "done"
    /\ UNCHANGED <<callVars, schema, command, args, opts, queue, results, paths, err,
                   typeName, usedTypes, types, fieldInfos, argInfos>>

NextArgs ==
    \/ RunArgsValidate
    \/ RunArgsLoop
    \/ RenderArgs

SpecArgs == InitArgs /\ [][NextArgs]_vars

-----------------------------------------------------------------------------
(* The four commands, each invoked once                                    *)

InitCli == Init \/ InitTypes \/ InitFields \/ InitArgs

NextCli ==
    \/ Next
    \/ NextTypes
    \/ NextFields
    \/ NextArgs

SpecCli == InitCli /\ [][NextCli]_vars

-----------------------------------------------------------------------------
(* The same command line run a second time on the same schema              *)

\* the first position of each command
entryOf(cmd) ==
    CASE cmd = "paths" -> "runPaths" [] cmd = "types" -> "runTypes"
      [] cmd = "fields" -> "runFields" [] cmd = "args" -> "runArgs"

\* ExecuteWithArgs is called again with the same arguments: a new command is
\* built and run, the output of the first run stays written
Reinvoke ==
    /\ pc = "done"
    /\ Len(stdout) = 1
    /\ pc' = entryOf(command)
    /\ queue' = <<>>
    /\ results' = <<>>
    /\ paths' = <<>>
    /\ types' = <<>>
    /\ fieldInfos' = <<>>
    /\ argInfos' = <<>>
    /\ UNCHANGED <<callVars, schema, command, args, opts, stdout, stderr, err, typeName,
                   usedTypes>>

\* the command lines that are run twice
InitTwice ==
    /\ InitCli
    /\ schema \in CommandSchemas
    /\ \/ /\ command = "paths"
          /\ args = <<T>>
          /\ opts.maxDepth = MaxDepthBound
          /\ opts.fromType = <<>>
          /\ opts.throughType = <<>>
       \/ /\ command = "types"
          /\ opts \in {withFlag(defaultTypesOptions, Flag("typeFilter", TRUE)),
                       withFlag(defaultTypesOptions, Flag("usedBy", <<Query>>))}
       \/ /\ command = "fields"
          /\ \/ args = <<>> /\ opts = withFlag(defaultFieldsFlags, Flag("returnsFilter", T))
             \/ args = <<Query>> /\ opts = defaultFieldsFlags
       \/ /\ command = "args"
          /\ args \in {<<>>, <<Query \o Dot \o <<"b">>>>}
          /\ opts = defaultArgsOptions

NextTwice ==
    \/ NextCli
    \/ Reinvoke

SpecTwice == InitTwice /\ [][NextTwice]_vars

-----------------------------------------------------------------------------
(* cmd/root.go: calls of ExecuteWithArgs, one after another in one process *)

OtherSchemaFile == <<"o", ".", "g", "r", "a", "p", "h", "q", "l">>
FormatJSON == <<"j", "s", "o", "n">>
FormatPretty == <<"p", "r", "e", "t", "t", "y">>

\* formatFlag(): stdout of the process is not a terminal
formatFlag == FormatText

\* render.ParseFormat: the format and nil (<<>>), or "" and the error
ParseFormat(str) ==
    IF ToLower(str) \in {FormatJSON, FormatText, FormatPretty}
    THEN [format |-> ToLower(str), err |-> <<>>]
    ELSE [format |-> <<>>, err |-> <<[msg |-> "invalid format", format |-> str]>>]

\* loadSchema: the schema that the file at the path holds; the working
\* directory holds schema.graphql, and every other path is a second file
schemaAt(path) ==
    IF path = DefaultSchemaFile THEN SchemaOf({1, 2, 3, 7, 8})
    ELSE SchemaOf({1, 4, 5, 6})

\* the options of the fields command as NewFieldsCmd constructs them
newFieldsOptions == defaultFieldsFlags

\* Mutant of newOptions: the options of a command outlive the call, a flag
\* that is not given keeps the value of the call before.
newOptionsKept(stale, cmd) ==
    LET fresh == CASE cmd = "types" -> defaultTypesOptions
                   [] cmd = "fields" -> newFieldsOptions
                   [] cmd = "args" -> defaultArgsOptions
                   [] cmd = "paths" -> defaultPathsOptions
    IN  IF DOMAIN stale = DOMAIN fresh THEN stale ELSE fresh

\* NewRootCmd adds NewTypesCmd(), NewFieldsCmd(), NewArgsCmd() and
\* NewPathsCmd(): each allocates its options and registers its flags with
\* their defaults, whatever the options of an earlier command tree hold
newOptions(stale, cmd) ==
    CASE cmd = "types" -> defaultTypesOptions
      [] cmd = "fields" -> newFieldsOptions
      [] cmd = "args" -> defaultArgsOptions
      [] cmd = "paths" -> defaultPathsOptions

\* the value that parsing the flags leaves in a variable bound to one flag
flagValue(flags, name, default) ==
    IF \E g \in flags : g.flag = name
    THEN (CHOOSE g \in flags : g.flag = name).value
    ELSE default

\* cobra parses the flags of the command line into the options
parseFlags(options, flags) ==
    [f \in DOMAIN options |-> flagValue(flags, f, options[f])]

\* one command line
Line(cmd, arguments, flags) == [command |-> cmd, args |-> arguments, flags |-> flags]

\* the command lines drawn for the calls
CallLines ==
    {Line("types", <<>>, flags) :
        flags \in {{}, {Flag("typeFilter", TRUE)}, {Flag("scalar", TRUE)},
                   {Flag("implements", A)},
                   {Flag("schema", OtherSchemaFile), Flag("usedBy", <<Query>>)},
                   {Flag("format", <<"J", "S", "O", "N">>),
                    Flag("kind", <<<<"t", "y", "p", "e">>>>)},
                   {Flag("format", <<"x", "m", "l">>)}}}
    \cup {Line("fields", <<>>, {Flag("deprecatedFilter", TRUE)}),
          Line("fields", <<>>, {Flag("requiredFilter", TRUE)}),
          Line("fields", <<Query>>, {}),
          Line("fields", <<A>>, {Flag("returnsFilter", T), Flag("nullableFilter", TRUE),
                                 Flag("schema", OtherSchemaFile)})}
    \cup {Line("args", <<>>, {Flag("required", TRUE)}),
          Line("args", <<Query \o Dot \o <<"b">>>>, {})}
    \cup {Line("paths", <<T>>, {}),
          Line("paths", <<T>>, {Flag("maxDepth", 1)}),
          Line("paths", <<T>>, {Flag("fromType", A), Flag("shortestOnly", TRUE)}),
          Line("paths", <<A>>, {Flag("throughType", A), Flag("schema", OtherSchemaFile)})}

\* the process has started and ExecuteWithArgs has not been called: the
\* package variables hold their zero values
InitCalls ==
    /\ pc = "idle"
    /\ schemaFilePath = <<>>
    /\ outputFormat = <<>>
    /\ argv = <<>>
    /\ previous = <<>>
    /\ schema = [Types |-> <<>>]
    /\ command = ""
    /\ args = <<>>
    /\ opts = <<>>
    /\ queue = <<>>
    /\ results = <<>>
    /\ paths = <<>>
    /\ stdout = <<>>
    /\ stderr = <<>>
    /\ err = <<>>
    /\ typeName = <<>>
    /\ usedTypes = {}
    /\ types = <<>>
    /\ fieldInfos = <<>>
    /\ argInfos = <<>>

\* ExecuteWithArgsAndStdin up to the RunE of the subcommand: NewRootCmd builds
\* a command tree, which binds --schema with its default, the buffers are
\* new, cobra parses the flags, PersistentPreRunE sets outputFormat; the
\* schema that RunE will load is the file at schemaFilePath
ExecuteWithArgsAndStdin ==
    /\ pc \in {"idle", "done", "failed"}
    /\ \E line \in CallLines :
          /\ argv' = line
          /\ previous' = argv
          /\ command' = line.command
          /\ args' = line.args
          /\ opts' = parseFlags(newOptions(opts, line.command), line.flags)
          /\ schemaFilePath' = flagValue(line.flags, "schema", DefaultSchemaFile)
          /\ outputFormat' = ParseFormat(flagValue(line.flags, "format", formatFlag)).format
          /\ err' = ParseFormat(flagValue(line.flags, "format", formatFlag)).err
          /\ pc' = IF err' # <<>> THEN "failed" ELSE entryOf(line.command)
    /\ schema' = schemaAt(schemaFilePath')
    /\ queue' = <<>>
    /\ results' = <<>>
    /\ paths' = <<>>
    /\ stdout' = <<>>
    /\ stderr' = <<>>
    /\ types' = <<>>
    /\ fieldInfos' = <<>>
    /\ argInfos' = <<>>
    /\ UNCHANGED <<typeName, usedTypes>>

NextCalls ==
    \/ ExecuteWithArgsAndStdin
    \/ NextCli

SpecCalls == InitCalls /\ [][NextCalls]_vars

-----------------------------------------------------------------------------
(* Reading a rendered path back                                            *)

\* the segments of a rendered path: its steps, then the target
segmentsOf(path) == Split(path, Arrow)

\* the declaring types of the steps of a rendered path, in order
stepTypesOf(path) ==
    LET segs == segmentsOf(path) IN
    [i \in 1 .. (Len(segs) - 1) |-> Split(segs[i], Dot)[1]]

\* the number of steps (hops) of a rendered path
stepCountOf(path) == Len(segmentsOf(path)) - 1

-----------------------------------------------------------------------------
(* The field sequences of the schema, stated without the search            *)

fieldsOfType(sch, name) ==
    IF TypeExists(sch, name)
    THEN {sch.Types[name].Fields[i] : i \in 1 .. Len(sch.Types[name].Fields)}
    ELSE {}

retOf(hop) == getBaseTypeName(hop.field.Type)

isObjectOrInterfaceWithFields(sch, name) ==
    /\ TypeExists(sch, name)
    /\ sch.Types[name].Kind \in {"OBJECT", "INTERFACE"}
    /\ fieldsOfType(sch, name) # {}

\* a sequence of hops from `from` may be continued after its last hop: the
\* base return types of its hops are pairwise distinct, differ from the start
\* type and are object or interface types with at least one field
mayContinue(sch, from, seq) ==
    /\ \A i \in 1 .. Len(seq) : retOf(seq[i]) # from
    /\ \A i, j \in 1 .. Len(seq) : i # j => retOf(seq[i]) # retOf(seq[j])
    /\ \A i \in 1 .. Len(seq) : isObjectOrInterfaceWithFields(sch, retOf(seq[i]))

\* the field sequences of exactly k hops that start at `from` and whose
\* proper prefixes may all be continued
RECURSIVE walksOfLength(_, _, _)
walksOfLength(sch, from, k) ==
    IF k = 1
    THEN {<<[typeName |-> from, field |-> f]>> : f \in fieldsOfType(sch, from)}
    ELSE UNION {
            {Append(w, [typeName |-> retOf(w[Len(w)]), field |-> f]) :
                f \in fieldsOfType(sch, retOf(w[Len(w)]))} :
            w \in {v \in walksOfLength(sch, from, k - 1) : mayContinue(sch, from, v)}}

\* the field sequences f1..fk, 1 <= k <= maxDepth, that end on the target
fieldSequences(sch, from, target, maxDepth) ==
    UNION {{w \in walksOfLength(sch, from, k) : retOf(w[k]) = target} :
           k \in 1 .. maxDepth}

renderSequence(w, target) ==
    formatPath([i \in 1 .. Len(w) |->
                   [typeName |-> w[i].typeName, fieldName |-> w[i].field.Name,
                    hasArgs |-> Len(w[i].field.Arguments) > 0]], target)

resultPaths == {results[i].Path : i \in 1 .. Len(results)}

-----------------------------------------------------------------------------
(* C1: for an existing start type and maxDepth >= 1, findPaths returns     *)
(* exactly one entry for each field sequence f1..fk, 1 <= k <= maxDepth,   *)
(* whose intermediate base return types are pairwise distinct, differ from *)
(* the start type and are object or interface types with fields, and whose *)
(* last base return type is the target; it returns no other entry.         *)
C1_FindPathsExact ==
    (pc = "through" /\ opts.maxDepth >= 1) =>
        LET seqs == fieldSequences(schema, fromType, targetType, opts.maxDepth) IN
        /\ resultPaths = {renderSequence(w, targetType) : w \in seqs}
        /\ Len(results) = Cardinality(seqs)
        /\ Cardinality(resultPaths) = Len(results)

C1_Witness ==
    /\ pc = "through"
    /\ opts.maxDepth >= 3
    /\ Len(results) >= 3
    /\ \E i \in 1 .. Len(results) : stepCountOf(results[i].Path) = 3

(* C2: every path returned by findPaths has at most max depth steps, for   *)
(* every value of max depth, 0 and negative values included.               *)
C2_StepCountWithinMaxDepth ==
    pc = "through" =>
        \A i \in 1 .. Len(results) : stepCountOf(results[i].Path) <= opts.maxDepth

(* C3: in every path returned by findPaths the declaring types of the      *)
(* steps are pairwise distinct; only the terminal target may repeat a type *)
(* of the path.                                                            *)
C3_NoRepeatedIntermediate ==
    pc = "through" =>
        \A i \in 1 .. Len(results) :
            LET ts == stepTypesOf(results[i].Path) IN
            \A j, k \in 1 .. Len(ts) : j # k => ts[j] # ts[k]

\* a returned path of two or more steps whose target is a type of the path
C3_Witness ==
    /\ pc = "through"
    /\ \E i \in 1 .. Len(results) :
          LET ts == stepTypesOf(results[i].Path) IN
          /\ Len(ts) >= 2
          /\ \E j \in 1 .. Len(ts) : ts[j] = targetType

(* C5: the list returned by findPaths is in ascending byte-wise            *)
(* lexicographic order of the rendered paths.                              *)
C5_ResultsSorted ==
    pc = "through" =>
        \A i, j \in 1 .. Len(results) :
            i < j => ~StrLess(results[j].Path, results[i].Path)

\* a returned list where a longer path precedes a shorter one
C5_Witness ==
    /\ pc = "through"
    /\ Len(results) >= 2
    /\ \E i \in 1 .. (Len(results) - 1) :
          stepCountOf(results[i].Path) > stepCountOf(results[i + 1].Path)

(* C4: findPaths terminates (its queue becomes empty and the loop is left) *)
(* on every schema, self-referential fields and type cycles included, for  *)
(* every max depth.                                                        *)
C4_SearchTerminates == (pc = "search") ~> (pc = "through" /\ queue = <<>>)

\* the search never holds a state longer than the cap of FindPathsLoop
StepsWithinCap ==
    \A i \in 1 .. Len(queue) : Len(queue[i].steps) <= MaxSteps

\* the search has ended on the schema that declares every optional field:
\* A.a returns A, and Query.v and A.q form a cycle
C4_Witness ==
    /\ pc = "through"
    /\ schema = SchemaOf(1 .. Len(OptionalFields))
    /\ opts.maxDepth = MaxDepthBound
    /\ queue = <<>>

\* the number of hops of the shortest route from the types of `frontier` to
\* the target through object and interface types, n hops being made already;
\* 0 when there is no route
RECURSIVE shortestHops(_, _, _, _, _)
shortestHops(sch, frontier, seen, target, n) ==
    LET rets == UNION {{getBaseTypeName(f.Type) : f \in fieldsOfType(sch, t)} :
                       t \in frontier}
        next == {r \in rets \ seen :
                    TypeExists(sch, r) /\ sch.Types[r].Kind \in {"OBJECT", "INTERFACE"}}
    IN  IF target \in rets THEN n + 1
        ELSE IF next = {} THEN 0
        ELSE shortestHops(sch, next, seen \cup next, target, n + 1)

shortestRoute == shortestHops(schema, {fromType}, {fromType}, targetType, 0)

(* C6: the depth bound is inclusive: when the shortest route from the      *)
(* start type to the target has exactly k hops, findPaths returns a        *)
(* non-empty list for maxDepth = k and an empty list for 1 <= maxDepth < k.*)
C6_DepthBoundInclusive ==
    (pc = "through" /\ shortestRoute >= 1 /\ opts.maxDepth >= 1) =>
        /\ opts.maxDepth = shortestRoute => results # <<>>
        /\ opts.maxDepth < shortestRoute => results = <<>>

\* a search whose max depth is exactly the length of a three-hop shortest route
C6_Witness ==
    /\ pc = "through"
    /\ shortestRoute = 3
    /\ opts.maxDepth = 3
    /\ results # <<>>

\* the path has a step whose declaring type is exactly x
hasStepOn(p, x) ==
    \E i \in 1 .. stepCountOf(p.Path) : stepTypesOf(p.Path)[i] = x

(* C7: with --through X the paths command keeps a path if and only if the  *)
(* path has a step whose declaring type is exactly X.                      *)
C7_ThroughKeepsExactSteps ==
    [][(pc = "through" /\ opts.throughType # <<>>) =>
          LET onX(p) == hasStepOn(p, opts.throughType) IN
          paths' = SelectSeq(paths, onX)]_vars

pathSet(list) == {list[i] : i \in 1 .. Len(list)}

\* the least hop count (number of arrow-joined segments) of a non-empty list
leastHops(list) ==
    CHOOSE m \in {depthOf(p) : p \in pathSet(list)} :
        \A p \in pathSet(list) : m <= depthOf(p)

(* C8: after --shortest every remaining path has the minimum hop count of  *)
(* the list before the reduction, every path of that list at the minimum   *)
(* is kept, and the reduced list is non-empty iff the list before was.     *)
C8_ShortestReduction ==
    [][(pc = "shortest" /\ opts.shortestOnly) =>
          /\ \A p \in pathSet(paths') : depthOf(p) = leastHops(paths)
          /\ \A p \in pathSet(paths) :
                depthOf(p) = leastHops(paths) => p \in pathSet(paths')
          /\ pathSet(paths') \subseteq pathSet(paths)
          /\ (paths' # <<>>) <=> (paths # <<>>)]_vars

\* a reduction that dropped a longer path and kept two paths of equal length
C8_Witness ==
    /\ pc = "render"
    /\ opts.shortestOnly
    /\ opts.throughType = <<>>
    /\ Len(paths) = 2
    /\ Len(results) > 2

(* C9: with --through X and --shortest the result is the set of paths      *)
(* through X whose hop count is least among the paths through X, so it is  *)
(* non-empty whenever some path through X exists.                          *)
C9_ThroughThenShortest ==
    (pc = "done" /\ opts.throughType # <<>> /\ opts.shortestOnly) =>
        LET onX(p) == hasStepOn(p, opts.throughType)
            throughX == SelectSeq(results, onX)
        IN  /\ throughX # <<>> => paths # <<>>
            /\ pathSet(paths) =
                  {p \in pathSet(throughX) : depthOf(p) = leastHops(throughX)}

(* C10: for an existing type, getTypesUsedBy is exactly the set of base    *)
(* type names of the return types of the type's fields and of the types of *)
(* those fields' arguments; the type itself is in the set when one of its  *)
(* fields or arguments refers to it.                                       *)
C10_UsedByExact ==
    (pc = "usedBy" /\ TypeExists(schema, typeName)) =>
        LET fs == fieldsOfType(schema, typeName)
            argsOf(f) == {f.Arguments[i] : i \in 1 .. Len(f.Arguments)}
            refers(f, n) ==
                \/ getBaseTypeName(f.Type) = n
                \/ \E a \in argsOf(f) : getBaseTypeName(a.Type) = n
        IN  /\ \A n \in usedTypes : \E f \in fs : refers(f, n)
            /\ \A f \in fs :
                  /\ getBaseTypeName(f.Type) \in usedTypes
                  /\ \A a \in argsOf(f) : getBaseTypeName(a.Type) \in usedTypes
            /\ (\E f \in fs : refers(f, typeName)) => typeName \in usedTypes

\* the usage set of Query holds N, which only an argument of Query.b names
C10_Witness ==
    /\ pc = "usedBy"
    /\ typeName = Query
    /\ N \in usedTypes
    /\ BA \in usedTypes

(* C11: for a type name that is absent from the schema, getTypesUsedBy      *)
(* returns the empty set and raises no error.                              *)
C11_AbsentTypeEmptySet ==
    (pc = "usedBy" /\ ~TypeExists(schema, typeName)) =>
        (usedTypes = {} /\ err = <<>>)

\* getTypesUsedBy has returned for the name Z, which no schema declares
C11_Witness ==
    /\ pc = "usedBy"
    /\ typeName = Z
    /\ ~TypeExists(schema, typeName)
    /\ usedTypes = {}

-----------------------------------------------------------------------------
(* The usage sets and the listing of the types command, stated without     *)
(* the command                                                             *)

\* the usage set of a type: the base type names that its fields return and
\* that the arguments of its fields take
usageSet(sch, r) ==
    {getBaseTypeName(f.Type) : f \in fieldsOfType(sch, r)}
    \cup UNION {{getBaseTypeName(f.Arguments[i].Type) : i \in 1 .. Len(f.Arguments)} :
                f \in fieldsOfType(sch, r)}

\* the names of the records that a finished command wrote to stdout
listedNames == {stdout[1][i].Name : i \in 1 .. Len(stdout[1])}

\* the types command has ended with the given flag as its only filter, every
\* type that the flag names being a type of the schema
endedWithOnly(flag) ==
    /\ command = "types"
    /\ pc = "done"
    /\ opts[flag] # <<>>
    /\ opts = [defaultTypesOptions EXCEPT ![flag] = opts[flag]]
    /\ \A i \in 1 .. Len(opts[flag]) : TypeExists(schema, opts[flag][i])

(* C12: with --used-by given for one or more existing types and no other   *)
(* filter, types lists a type X of the schema if and only if X is in the   *)
(* usage set of every listed type.                                         *)
C12_UsedByAll ==
    endedWithOnly("usedBy") =>
        /\ \A x \in DOMAIN schema.Types :
              x \in listedNames <=>
                 \A i \in 1 .. Len(opts.usedBy) : x \in usageSet(schema, opts.usedBy[i])
        /\ listedNames \subseteq DOMAIN schema.Types
        /\ Len(stdout[1]) = Cardinality(listedNames)

\* --used-by Query --used-by A has listed T and has left out BA, which only
\* Query uses
C12_Witness ==
    /\ endedWithOnly("usedBy")
    /\ opts.usedBy = <<Query, A>>
    /\ T \in listedNames
    /\ BA \in usageSet(schema, Query)
    /\ BA \notin listedNames

(* C13: with --used-by-any and no other filter, types lists X if and only  *)
(* if X is in the usage set of at least one listed type.                   *)
C13_UsedByAny ==
    endedWithOnly("usedByAny") =>
        /\ \A x \in DOMAIN schema.Types :
              x \in listedNames <=>
                 \E i \in 1 .. Len(opts.usedByAny) :
                    x \in usageSet(schema, opts.usedByAny[i])
        /\ listedNames \subseteq DOMAIN schema.Types
        /\ Len(stdout[1]) = Cardinality(listedNames)

\* --used-by-any Query --used-by-any A has listed BA, which only Query uses
C13_Witness ==
    /\ endedWithOnly("usedByAny")
    /\ opts.usedByAny = <<Query, A>>
    /\ BA \in listedNames
    /\ BA \notin usageSet(schema, A)

(* C14: with --not-used-by and no other filter, types lists X if and only  *)
(* if X is in none of the usage sets of the listed types.                  *)
C14_NotUsedBy ==
    endedWithOnly("notUsedBy") =>
        /\ \A x \in DOMAIN schema.Types :
              x \in listedNames <=>
                 \A i \in 1 .. Len(opts.notUsedBy) :
                    x \notin usageSet(schema, opts.notUsedBy[i])
        /\ listedNames \subseteq DOMAIN schema.Types
        /\ Len(stdout[1]) = Cardinality(listedNames)

\* --not-used-by A --not-used-by BA has left out Query, which only A uses,
\* and has listed N
C14_Witness ==
    /\ endedWithOnly("notUsedBy")
    /\ opts.notUsedBy = <<A, BA>>
    /\ Query \in usageSet(schema, A)
    /\ Query \notin usageSet(schema, BA)
    /\ Query \notin listedNames
    /\ N \in listedNames

(* C15: with --not-used-by-all and no other filter, X is left out only if  *)
(* it is in the usage sets of all listed types; X is listed when it is     *)
(* absent from at least one of them.                                       *)
C15_NotUsedByAll ==
    endedWithOnly("notUsedByAll") =>
        /\ \A x \in DOMAIN schema.Types :
              x \notin listedNames <=>
                 \A i \in 1 .. Len(opts.notUsedByAll) :
                    x \in usageSet(schema, opts.notUsedByAll[i])
        /\ listedNames \subseteq DOMAIN schema.Types
        /\ Len(stdout[1]) = Cardinality(listedNames)

\* --not-used-by-all Query --not-used-by-all A has listed BA, which Query
\* uses and A does not, and has left out T, which both use
C15_Witness ==
    /\ endedWithOnly("notUsedByAll")
    /\ opts.notUsedByAll = <<Query, A>>
    /\ BA \in usageSet(schema, Query)
    /\ BA \in listedNames
    /\ T \notin listedNames

\* the types that `types` lists for the given options
listedFor(sch, o) == passingTypes(sch, o)

(* C16: for one existing type R and no other filter, every type of the     *)
(* schema is in exactly one of the results of `types --used-by R` and      *)
(* `types --not-used-by R`.                                                *)
C16_UsedByComplement ==
    /\ (endedWithOnly("usedBy") /\ Len(opts.usedBy) = 1) =>
          \A x \in DOMAIN schema.Types :
             (x \in listedNames) <=>
                (x \notin listedFor(schema,
                     [defaultTypesOptions EXCEPT !.notUsedBy = opts.usedBy]))
    /\ (endedWithOnly("notUsedBy") /\ Len(opts.notUsedBy) = 1) =>
          \A x \in DOMAIN schema.Types :
             (x \in listedNames) <=>
                (x \notin listedFor(schema,
                     [defaultTypesOptions EXCEPT !.usedBy = opts.notUsedBy]))

\* --used-by Query has listed some types of the schema and not others
C16_Witness ==
    /\ endedWithOnly("usedBy")
    /\ opts.usedBy = <<Query>>
    /\ BA \in listedNames
    /\ Query \notin listedNames
    /\ Query \in listedFor(schema, [defaultTypesOptions EXCEPT !.notUsedBy = <<Query>>])

-----------------------------------------------------------------------------
(* The command lines that a command rejects, stated without the command    *)

\* the pattern opens a group that it does not close
unclosedGroup(pattern) ==
    \E i \in 1 .. Len(pattern) :
        /\ pattern[i] = "("
        /\ \A j \in (i + 1) .. Len(pattern) : pattern[j] # ")"

unknownType(name) == name \notin DOMAIN schema.Types

\* the positions of the dots of a string
dotsOf(s) == {i \in 1 .. Len(s) : s[i] = "."}

\* the argument of args is not Type.field with a field of a type of the schema
badFieldPath(fieldPath) ==
    \/ Cardinality(dotsOf(fieldPath)) # 1
    \/ LET dot == CHOOSE i \in dotsOf(fieldPath) : TRUE
           owner == SubSeq(fieldPath, 1, dot - 1)
           fieldName == SubSeq(fieldPath, dot + 1, Len(fieldPath))
       IN  \/ unknownType(owner)
           \/ \A f \in fieldsOfType(schema, owner) : f.Name # fieldName

\* the command line names an unknown type, a type of the wrong kind, a field
\* that does not exist, a malformed regex, or both --required and --nullable
rejected ==
    CASE command = "paths" ->
            \/ unknownType(args[1])
            \/ opts.fromType # <<>> /\ unknownType(opts.fromType)
            \/ opts.throughType # <<>> /\ unknownType(opts.throughType)
      [] command = "types" ->
            \/ unclosedGroup(opts.nameRegex)
            \/ opts.implements # <<>> /\ unknownType(opts.implements)
            \/ /\ opts.implements # <<>>
               /\ ~unknownType(opts.implements)
               /\ schema.Types[opts.implements].Kind # "INTERFACE"
            \/ \E flag \in {"usedBy", "usedByAny", "notUsedBy", "notUsedByAll"} :
                  \E i \in 1 .. Len(opts[flag]) : unknownType(opts[flag][i])
      [] command = "fields" ->
            \/ opts.requiredFilter /\ opts.nullableFilter
            \/ unclosedGroup(opts.nameRegexFilter)
            \/ args # <<>> /\ unknownType(args[1])
      [] command = "args" ->
            \/ opts.required /\ opts.nullable
            \/ unclosedGroup(opts.nameRegex)
            \/ args # <<>> /\ badFieldPath(args[1])

\* no record has been produced or written
nothingProduced ==
    /\ stdout = <<>>
    /\ results = <<>>
    /\ paths = <<>>
    /\ types = <<>>
    /\ fieldInfos = <<>>
    /\ argInfos = <<>>

(* C17: two invocations of the same types, fields, args or paths query on  *)
(* the same unchanged schema write identical result lists in identical     *)
(* order, whatever order the type map of the schema is iterated in.        *)
C17_SameListTwice ==
    Len(stdout) = 2 => stdout[1] = stdout[2]

(* C18: a paths, types, fields or args command that is given an unknown    *)
(* type, a type of the wrong kind, or an invalid configuration ends with a *)
(* non-nil error and has written no record to stdout: the validation ends  *)
(* before any record is produced, and no error arises after it.            *)
C18_FailsBeforeOutput ==
    pc # entryOf(command) =>
        /\ rejected <=> pc = "failed"
        /\ pc = "failed" => (err # <<>> /\ nothingProduced)
        /\ err # <<>> => pc = "failed"

\* types --used-by Query --not-used-by-all N --not-used-by-all Z has failed
\* on Z, the last name that runTypes validates
C18_Witness ==
    /\ command = "types"
    /\ pc = "failed"
    /\ opts.usedBy = <<Query>>
    /\ opts.notUsedByAll = <<N, Z>>
    /\ err # <<>>
    /\ stdout = <<>>

\* the notice that each command writes for an empty result
noticeOf(cmd) ==
    CASE cmd = "paths" -> NoPathsNotice [] cmd = "types" -> NoTypesNotice
      [] cmd = "fields" -> NoFieldsNotice [] cmd = "args" -> NoArgsNotice

(* C19: an empty result is not an error: the command returns no error,     *)
(* writes its notice to stderr and still renders the empty list to stdout. *)
C19_EmptyResultNoError ==
    /\ pc = "done" => (err = <<>> /\ Len(stdout) = 1)
    /\ (pc = "done" /\ stdout[1] = <<>>) => stderr = <<noticeOf(command)>>
    /\ (pc = "done" /\ stdout[1] # <<>>) => stderr = <<>>
    /\ (pc \in {"render", "typesRender", "fieldsRender", "argsRender"}) =>
          (err = <<>> /\ stdout = <<>>)

\* args --type N on a schema without Query.b has listed no argument
C19_Witness ==
    /\ command = "args"
    /\ pc = "done"
    /\ args = <<>>
    /\ opts.typeFilter = N
    /\ stdout = << <<>> >>
    /\ stderr = <<NoArgsNotice>>
    /\ err = <<>>

\* the command line gives both --required and --nullable to fields or args
requiredAndNullable ==
    \/ command = "fields" /\ opts.requiredFilter /\ opts.nullableFilter
    \/ command = "args" /\ opts.required /\ opts.nullable

(* C20: fields and args given both --required and --nullable always fail   *)
(* with the configuration error "cannot be used together" and yield no     *)
(* results.                                                                *)
C20_RequiredNullableExclusive ==
    (requiredAndNullable /\ pc # entryOf(command)) =>
        /\ pc = "failed"
        /\ err = <<[msg |-> "--required and --nullable cannot be used together"]>>
        /\ nothingProduced

\* fields Z --required --nullable has failed on the two flags, not on Z
C20_Witness ==
    /\ command = "fields"
    /\ pc = "failed"
    /\ args = <<Z>>
    /\ opts.requiredFilter
    /\ opts.nullableFilter
    /\ err = <<[msg |-> "--required and --nullable cannot be used together"]>>

-----------------------------------------------------------------------------
(* types --implements                                                      *)

\* the error that validateTypeError-style messages of --implements carry
implementsError(msg) ==
    <<[context |-> "interface", name |-> opts.implements, msg |-> msg]>>

\* the declared interface list of a type of the schema, as a set of names
declaredInterfaces(sch, name) ==
    {sch.Types[name].Interfaces[i] : i \in 1 .. Len(sch.Types[name].Interfaces)}

\* C21: for `types --implements I` (with a --name-regex that compiles, which
\* is checked before the schema is read): when I is not a type of the schema
\* the command fails with the does-not-exist error; when I exists but is not
\* an interface it fails with the not-an-interface error; otherwise every type
\* that is listed has I, by exact name, in its declared interface list.
C21_ImplementsFilter ==
    (/\ command = "types"
     /\ pc # "runTypes"
     /\ opts.implements # <<>>
     /\ regexpCompile(opts.nameRegex) = <<>>)
    => IF ~TypeExists(schema, opts.implements)
       THEN pc = "failed" /\ err = implementsError("does not exist in schema")
       ELSE IF schema.Types[opts.implements].Kind # "INTERFACE"
       THEN pc = "failed" /\ err = implementsError("is not an interface")
       ELSE pc = "done"
            => \A name \in listedNames :
                   opts.implements \in declaredInterfaces(schema, name)

\* `types --implements A` on a schema where BA implements A lists BA
C21_Witness ==
    /\ command = "types"
    /\ pc = "done"
    /\ opts.implements = A
    /\ BA \in listedNames
    /\ Query \notin listedNames

-----------------------------------------------------------------------------
(* types: the kind dimension                                               *)

\* two characters that are the same letter in either case
sameLetter(c, d) ==
    \/ c = d
    \/ \E pair \in {<<"i", "I">>, <<"n", "N">>, <<"p", "P">>, <<"u", "U">>,
                    <<"t", "T">>} : {c, d} = {pair[1], pair[2]}

\* two words that are equal when case is ignored
sameWord(v, w) ==
    Len(v) = Len(w) /\ \A i \in 1 .. Len(v) : sameLetter(v[i], w[i])

\* the kinds that a --kind value names
kindsNamedBy(word) ==
    {k \in {"SCALAR", "OBJECT", "INTERFACE", "UNION", "ENUM", "INPUT_OBJECT"} :
        \/ k = "SCALAR" /\ sameWord(word, <<"s", "c", "a", "l", "a", "r">>)
        \/ k = "OBJECT" /\ sameWord(word, <<"t", "y", "p", "e">>)
        \/ k = "OBJECT" /\ sameWord(word, <<"o", "b", "j", "e", "c", "t">>)
        \/ k = "INTERFACE"
           /\ sameWord(word, <<"i", "n", "t", "e", "r", "f", "a", "c", "e">>)
        \/ k = "UNION" /\ sameWord(word, <<"u", "n", "i", "o", "n">>)
        \/ k = "ENUM" /\ sameWord(word, <<"e", "n", "u", "m">>)
        \/ k = "INPUT_OBJECT" /\ sameWord(word, <<"i", "n", "p", "u", "t">>)}

\* the kinds requested by the individual flags and by the values of --kind
requestedKinds(o) ==
    {k \in {"SCALAR"} : o.scalar} \cup {k \in {"OBJECT"} : o.typeFilter}
    \cup {k \in {"INTERFACE"} : o.interfaceFlag} \cup {k \in {"UNION"} : o.union}
    \cup {k \in {"ENUM"} : o.enum} \cup {k \in {"INPUT_OBJECT"} : o.input}
    \cup UNION {kindsNamedBy(o.kind[i]) : i \in 1 .. Len(o.kind)}

kindGiven(o) ==
    \/ o.kind # <<>>
    \/ o.scalar \/ o.typeFilter \/ o.interfaceFlag \/ o.union \/ o.enum \/ o.input

\* a command line whose only flags are those of the kind dimension
onlyKindFlags(o) ==
    [o EXCEPT !.kind = <<>>, !.scalar = FALSE, !.typeFilter = FALSE,
              !.interfaceFlag = FALSE, !.union = FALSE, !.enum = FALSE,
              !.input = FALSE] = defaultTypesOptions

inKindDimension(sch, name, o) ==
    kindGiven(o) => sch.Types[name].Kind \in requestedKinds(o)

\* C22: the kind dimension is an OR over the requested kinds: a listed type
\* has one of the kinds requested by the individual flags or by the --kind
\* values (case ignored, `type` and `object` both the object kind), and when
\* no other dimension is active exactly the types of a requested kind are
\* listed; with no kind flag at all, every type passes the dimension.
C22_KindIsOr ==
    (command = "types" /\ pc = "done")
    => /\ \A name \in listedNames : inKindDimension(schema, name, opts)
       /\ onlyKindFlags(opts)
          => listedNames = {name \in DOMAIN schema.Types :
                               inKindDimension(schema, name, opts)}

\* `types --type --kind INPUT --kind scalar` lists the objects, the input
\* object and the scalar, and not the interface
C22_Witness ==
    /\ command = "types"
    /\ pc = "done"
    /\ opts.typeFilter
    /\ opts.kind = <<<<"I", "N", "P", "U", "T">>, <<"s", "c", "a", "l", "a", "r">>>>
    /\ {Query, N, S} \subseteq listedNames
    /\ A \notin listedNames

-----------------------------------------------------------------------------
(* types: the dimensions combined                                          *)

fieldNamesOf(sch, name) ==
    {sch.Types[name].Fields[i].Name : i \in 1 .. Len(sch.Types[name].Fields)}

elementsOf(list) == {list[i] : i \in 1 .. Len(list)}

\* the ten dimensions of the types command, each vacuous when not set
inEveryDimension(sch, name, o) ==
    /\ o.implements # <<>> => o.implements \in declaredInterfaces(sch, name)
    /\ elementsOf(o.hasField) \subseteq fieldNamesOf(sch, name)
    /\ inKindDimension(sch, name, o)
    /\ \A r \in elementsOf(o.usedBy) : name \in usageSet(sch, r)
    /\ o.usedByAny # <<>>
       => \E r \in elementsOf(o.usedByAny) : name \in usageSet(sch, r)
    /\ \A r \in elementsOf(o.notUsedBy) : name \notin usageSet(sch, r)
    /\ o.notUsedByAll # <<>>
       => \E r \in elementsOf(o.notUsedByAll) : name \notin usageSet(sch, r)
    /\ o.hasDescription => sch.Types[name].Description # <<>>
    /\ o.name # <<>> => filepathMatch(o.name, name)
    /\ o.nameRegex # <<>> => MatchString(o.nameRegex, name)

\* C23: the types command lists a type if and only if the type passes every
\* activated dimension (implements, has-field with ALL the names, kind,
\* used-by, used-by-any, not-used-by, not-used-by-all, has-description, name
\* glob, name regex); a dimension that is not set holds of every type.
C23_TypesDimensionsAnd ==
    (command = "types" /\ pc = "done")
    => listedNames = {name \in DOMAIN schema.Types :
                         inEveryDimension(schema, name, opts)}

\* `types --type --has-field t --has-field a`: BA declares both fields and is
\* listed; Query declares only t and the interface A is of another kind
C23_Witness ==
    /\ command = "types"
    /\ pc = "done"
    /\ opts.typeFilter
    /\ opts.hasField = <<<<"t">>, <<"a">>>>
    /\ BA \in listedNames
    /\ <<"t">> \in fieldNamesOf(schema, Query)
    /\ Query \notin listedNames
    /\ A \notin listedNames

-----------------------------------------------------------------------------
(* fields: the dimensions combined                                         *)

\* the name left after every list and non-null wrapper is removed
RECURSIVE innermostName(_)
innermostName(type) ==
    IF type.Elem # <<>> THEN innermostName(type.Elem[1]) ELSE type.NamedType

argumentNamesOf(field) ==
    {field.Arguments[i].Name : i \in 1 .. Len(field.Arguments)}

\* the eight dimensions of the fields command, each vacuous when not set
inEveryFieldDimension(field, o) ==
    /\ o.deprecatedFilter => "deprecated" \in elementsOf(field.Directives)
    /\ elementsOf(o.hasArgFilter) \subseteq argumentNamesOf(field)
    /\ o.returnsFilter # <<>> => innermostName(field.Type) = o.returnsFilter
    /\ o.requiredFilter => field.Type.NonNull
    /\ o.nullableFilter => ~field.Type.NonNull
    /\ o.hasDescriptionFilter => field.Description # <<>>
    /\ o.nameFilter # <<>> => filepathMatch(o.nameFilter, field.Name)
    /\ o.nameRegexFilter # <<>> => MatchString(o.nameRegexFilter, field.Name)

\* the (type, field) pairs that the fields command has written
listedFields == {<<stdout[1][i].TypeName, stdout[1][i].Name>> : i \in 1 .. Len(stdout[1])}

\* the (type, field) pairs of the given types that pass every dimension; the
\* type is left empty when the command was given a type
fieldsInEveryDimension(sch, names, label, o) ==
    UNION {{<<IF label THEN name ELSE <<>>, field.Name>> :
               field \in {f \in elementsOf(sch.Types[name].Fields) :
                             inEveryFieldDimension(f, o)}} :
           name \in names}

\* C24: the fields command lists a field, once, if and only if the field
\* passes every activated dimension: deprecated, has-arg with ALL the names,
\* returns (the base type of the return type), required or nullable (the
\* outermost type), has-description, name glob and name regex; both without
\* a type argument (every type of the schema) and with one.
C24_FieldsDimensionsAnd ==
    (command = "fields" /\ pc = "done")
    => /\ listedFields =
             IF args = <<>>
             THEN fieldsInEveryDimension(schema, DOMAIN schema.Types, TRUE, opts)
             ELSE fieldsInEveryDimension(schema, {args[1]}, FALSE, opts)
       /\ Cardinality(listedFields) = Len(stdout[1])

\* `fields --has-arg n --has-arg s`: Query.b declares both arguments and is
\* listed, A.a declares only s and is not
C24_Witness ==
    /\ command = "fields"
    /\ pc = "done"
    /\ args = <<>>
    /\ opts.hasArgFilter = <<<<"n">>, <<"s">>>>
    /\ <<Query, <<"b">>>> \in listedFields
    /\ \E f \in elementsOf(schema.Types[A].Fields) :
          f.Name = <<"a">> /\ <<"s">> \in argumentNamesOf(f)
    /\ <<A, <<"a">>>> \notin listedFields

-----------------------------------------------------------------------------
(* fields <type>: declaration order                                        *)

\* the names of a list of records or of field definitions, in order
namesInOrder(list) == [i \in 1 .. Len(list) |-> list[i].Name]

\* sub is obtained from whole by leaving elements out
isSubsequence(sub, whole) ==
    \E at \in [1 .. Len(sub) -> 1 .. Len(whole)] :
        /\ \A i \in 1 .. Len(sub) : whole[at[i]] = sub[i]
        /\ \A i, j \in 1 .. Len(sub) : i < j => at[i] < at[j]

\* C27: `fields <type>` writes the fields in the declaration order of the
\* type: the written list is a subsequence of the declared field list, and
\* with no filter on the command line it is the whole declared list.
C27_DeclarationOrder ==
    (command = "fields" /\ pc = "done" /\ args # <<>>)
    => /\ isSubsequence(namesInOrder(stdout[1]),
                        namesInOrder(schema.Types[args[1]].Fields))
       /\ opts = defaultFieldsFlags
          => namesInOrder(stdout[1]) = namesInOrder(schema.Types[args[1]].Fields)

\* `fields Query` without a filter on a schema where Query declares four
\* fields writes the four of them
C27_Witness ==
    /\ command = "fields"
    /\ pc = "done"
    /\ args = <<Query>>
    /\ opts = defaultFieldsFlags
    /\ Len(schema.Types[Query].Fields) = 4
    /\ Len(stdout[1]) = 4

-----------------------------------------------------------------------------
(* fields: the two branches                                                *)

\* a record without its type prefix
withoutTypeName(info) == [info EXCEPT !.TypeName = <<>>]

\* the records that `fields` without a type argument writes for one type
writtenByAllTypesBranch(sch, name, o) ==
    {withoutTypeName(info) : info \in elementsOf(fieldsWithTypeName(sch.Types[name], o))}

\* the records that `fields <type>` writes
writtenByOneTypeBranch(sch, name, o) == elementsOf(fieldsOfOneType(sch.Types[name], o))

\* C28: the two branches of fields apply the same predicate: for an existing
\* type T and any filter options, the set of fields that `fields T` writes is
\* the set of fields with typeName T that `fields` without a type argument
\* writes, the type prefix aside.
C28_BranchesAgree ==
    (command = "fields" /\ pc = "done")
    => IF args # <<>>
       THEN elementsOf(stdout[1]) = writtenByAllTypesBranch(schema, args[1], opts)
       ELSE \A name \in DOMAIN schema.Types :
               {withoutTypeName(info) :
                   info \in {i \in elementsOf(stdout[1]) : i.TypeName = name}}
               = writtenByOneTypeBranch(schema, name, opts)

\* `fields A --nullable` on a schema where A declares nullable and non-null
\* fields writes some of the fields of A and not all of them
C28_Witness ==
    /\ command = "fields"
    /\ pc = "done"
    /\ args = <<A>>
    /\ opts.nullableFilter
    /\ Len(stdout[1]) > 0
    /\ Len(stdout[1]) < Len(schema.Types[A].Fields)

-----------------------------------------------------------------------------
(* Calls one after another                                                 *)

\* the defaults of the options of a command
defaultsFor(cmd) ==
    CASE cmd = "types" -> defaultTypesOptions
      [] cmd = "fields" -> defaultFieldsFlags
      [] cmd = "args" -> defaultArgsOptions
      [] cmd = "paths" -> defaultPathsOptions

\* the flags given on the command line of the running call
givenFlags == {g.flag : g \in argv.flags}

\* the options that the command line of the running call yields by itself
ownOptions ==
    [f \in DOMAIN defaultsFor(argv.command) |->
        IF f \in givenFlags THEN (CHOOSE g \in argv.flags : g.flag = f).value
        ELSE defaultsFor(argv.command)[f]]

\* the schema file that the command line of the running call names
ownSchema ==
    schemaAt(IF "schema" \in givenFlags
             THEN (CHOOSE g \in argv.flags : g.flag = "schema").value
             ELSE DefaultSchemaFile)

\* nothing that a command builds is there when it starts
startsEmpty ==
    /\ queue = <<>> /\ results = <<>> /\ paths = <<>>
    /\ stdout = <<>> /\ stderr = <<>> /\ err = <<>>
    /\ types = <<>> /\ fieldInfos = <<>> /\ argInfos = <<>>

-----------------------------------------------------------------------------
(* Arguments and traversal                                                 *)

\* a schema with the arguments of every field replaced
withArguments(sch, arguments) ==
    [Types |-> [name \in DOMAIN sch.Types |->
        [sch.Types[name] EXCEPT !.Fields =
            [i \in 1 .. Len(sch.Types[name].Fields) |->
                [sch.Types[name].Fields[i] EXCEPT !.Arguments = arguments]]]]]

\* the same schema with no field declaring an argument, and with every
\* field declaring one
withoutArguments(sch) == withArguments(sch, <<>>)
withArgumentsEverywhere(sch) ==
    withArguments(sch, <<[Name |-> <<"x">>, Type |-> [NamedType |-> S, Elem |-> <<>>,
                                                      NonNull |-> FALSE],
                          Description |-> <<>>, Directives |-> <<>>]>>)

\* a rendered path with its `(...)` markers removed
withoutMarkers(path) == Join(Split(path, Ellipsis), <<>>)

pathsWithoutMarkers(list) == {withoutMarkers(list[i].Path) : i \in 1 .. Len(list)}

\* C26: arguments on fields do not affect the traversal: the paths that
\* findPaths returns on a schema, on the same schema without any argument
\* and on the same schema with an argument on every field are the same set
\* once the `(...)` markers are removed.
C26_ArgumentsDoNotAffectTraversal ==
    pc = "through"
    => /\ pathsWithoutMarkers(results)
          = pathsWithoutMarkers(findPaths(withoutArguments(schema), fromType,
                                          targetType, opts.maxDepth))
       /\ pathsWithoutMarkers(results)
          = pathsWithoutMarkers(findPaths(withArgumentsEverywhere(schema), fromType,
                                          targetType, opts.maxDepth))

\* a path found through a field that declares arguments
C26_Witness ==
    /\ pc = "through"
    /\ \E i \in 1 .. Len(results) :
          /\ Contains(results[i].Path, Ellipsis \o Arrow \o BA \o Dot)
          /\ stepCountOf(results[i].Path) >= 2

-----------------------------------------------------------------------------
(* The depth bound                                                         *)

pathsOf(list) == {list[i].Path : i \in 1 .. Len(list)}

\* C29: findPaths is monotone in the depth bound: every path returned with
\* maxDepth = d, for d negative, zero or positive, is also returned with
\* maxDepth = d + 1 on the same schema, start type and target.
C29_MonotoneInDepth ==
    pc = "through"
    => /\ pathsOf(results)
          = pathsOf(findPaths(schema, fromType, targetType, opts.maxDepth))
       /\ pathsOf(results)
          \subseteq pathsOf(findPaths(schema, fromType, targetType,
                                      opts.maxDepth + 1))

\* a search that returns paths, and returns more of them one level deeper
C29_Witness ==
    /\ pc = "through"
    /\ opts.maxDepth >= 1
    /\ Len(results) > 0
    /\ Len(findPaths(schema, fromType, targetType, opts.maxDepth + 1)) > Len(results)

-----------------------------------------------------------------------------
(* paths: the order of validation                                          *)

\* the type names of a paths command line in the order target, start
\* (Query when --from is not given), --through when given
namedTypes ==
    <<args[1], IF opts.fromType = <<>> THEN Query ELSE opts.fromType>>
    \o (IF opts.throughType = <<>> THEN <<>> ELSE <<opts.throughType>>)

\* the positions of the names that are not types of the schema
missingTypes == {i \in 1 .. Len(namedTypes) : namedTypes[i] \notin DOMAIN schema.Types}

\* findPaths has not been entered: no queue, no result
searchNotStarted == queue = <<>> /\ results = <<>> /\ paths = <<>> /\ stdout = <<>>

\* C30: paths validates the type names in the order target, start (--from,
\* Query when not given), --through: when one of them is not a type of the
\* schema the command fails with the error that names the first such name in
\* that order and findPaths is never entered; otherwise no error is returned
\* and the search runs.
C30_ValidationOrder ==
    (command = "paths" /\ pc # "runPaths")
    => IF missingTypes # {}
       THEN /\ pc = "failed"
            /\ err = <<[context |-> "type",
                        name |-> namedTypes[CHOOSE i \in missingTypes :
                                               \A j \in missingTypes : i <= j],
                        msg |-> "does not exist in schema"]>>
            /\ searchNotStarted
       ELSE pc # "failed" /\ err = <<>>

\* target, start and --through all name types that do not exist: the error
\* names the target
C30_Witness ==
    /\ command = "paths"
    /\ pc = "failed"
    /\ args = <<Z>>
    /\ opts.fromType = Y
    /\ opts.throughType = X
    /\ err[1].name = Z

====
